---- MODULE Spec2Model ----
(***************************************************************************)
(* Process-based JSON-RPC transport of unified-agent: BaseConnection       *)
(* (spawn, request correlation, deadlines, routing, teardown) and the two  *)
(* protocol adapters built on it, AcpConnection (session dialect) and      *)
(* McpConnection (tool dialect).                                           *)
(*                                                                         *)
(* One connection object is modelled.  Every macrotask of the Node event   *)
(* loop (a host call, one parsed stdout line, a timer, a process event) is *)
(* one action; promise continuations (the code after an `await`, a .then   *)
(* or .catch) are queued in `micro` and run before the next macrotask.     *)
(* Lines of one stdout chunk are handled back to back, before the          *)
(* continuations they schedule, so Deliver stays enabled while `micro` is  *)
(* not empty.                                                              *)
(***************************************************************************)
EXTENDS Integers, Sequences, FiniteSets, TLC

\* ---------------------------------------------------------------- bounds
\* Requests one connection may issue (caps the nextId counter).
MaxId == 3
\* connect() calls on the connection object (each spawns one subprocess).
MaxSpawn == 1
\* Replies (responses / error responses) the connection may write.
MaxReplies == 2
\* codex/event and elicitation/create messages the connection may handle
\* per call id.
MaxApprovalLog == 2
\* Promise continuations that may be queued by the lines of one stdout chunk.
MaxMicro == 2
\* setModel() calls on the connection object.
MaxSetModel == 1
\* killProcess() calls on one child process.
MaxKillCalls == 2
\* connect() and disconnect() calls on one UnifiedAgentClient.
MaxClientCalls == 3
\* connect() calls on one connection object that is connected again.
MaxRespawn == 2
\* Characters in the text the subprocess writes to stdout.
MaxStream == 3

\* ------------------------------------------------------ program constants
\* `child: ChildProcess | null = null`; processes are numbered from 1.
NoChild == 0
\* options.requestTimeout ?? 300_000
DefaultRequestTimeout == 300000
\* options.initTimeout ?? 60_000
DefaultInitTimeout == 60000
\* `acpConnection: AcpConnection | null = null`; connections are numbered from 1.
NoConnection == 0
\* killProcess(child, forceTimeoutMs = 3000)
DefaultForceTimeout == 3000

ConnectionStates ==
    {"disconnected", "connecting", "connected", "initializing", "ready",
     "error", "closed"}

VARIABLES
    dialect,               \* "acp" (AcpConnection) or "mcp" (McpConnection)
    autoApprove,           \* options.autoApprove ?? false
    yoloMode,              \* options.yoloMode ?? false (McpConnection)
    state,                 \* BaseConnection.state
    child,                 \* BaseConnection.child: NoChild or a process number
    alive,                 \* processes spawned and not yet exited
    nextId,                \* BaseConnection.nextId
    pending,               \* BaseConnection.pending: id -> [method, tag, call]
    timers,                \* armed deadline timers: id -> [ms, method, tag, call]
    outcome,               \* per issued id: how the caller's promise settled
    written,               \* what was written to the subprocess's stdin
    pendingAutoApprovals,  \* McpConnection.pendingAutoApprovals: callId -> decision
    tools,                 \* McpConnection.tools
    hostPending,           \* remote requests surfaced to the host, unanswered by the connection
    approvalLog,           \* per call id: its codex/event and elicitation/create messages, as handled
    conn,                  \* one entry per connect() call: where that call stands
    setModelCalls,         \* one entry per setModel() call: where that call stands
    kp,                    \* killProcess: per target child its flags, signals and force-kill timers
    client,                \* UnifiedAgentClient: acpConnection, the connections it created, its calls
    io,                    \* the stdout pipe: bytes still to arrive, stdoutBuffer, the lines dispatched
    micro,                 \* queued promise continuations
    step                   \* the operation that produced this state, its input and events

config == <<dialect, autoApprove, yoloMode>>
aside == <<kp, client, io>>
connection == <<config, state, child, alive, nextId, pending, timers, outcome,
                written, pendingAutoApprovals, tools, hostPending, approvalLog,
                conn, setModelCalls, micro>>
vars == <<dialect, autoApprove, yoloMode, state, child, alive, nextId, pending,
          timers, outcome, written, pendingAutoApprovals, tools, hostPending,
          approvalLog, conn, setModelCalls, kp, client, io, micro, step>>

\* ------------------------------------------------------------- messages
\* A decoded inbound JSON-RPC message.  idk: "none" ('id' not in msg),
\* "num" (typeof id === 'number') or "str"; method "" when absent; err ""
\* when response.error is absent; call is codex_call_id / msg.call_id;
\* typ is params.msg.type of codex/event; opts is params.options.length
\* (0 when params.options is absent, NoParams when params itself is absent).
Msg(idk, id, method, res, err, call, typ, opts) ==
    [idk |-> idk, id |-> id, method |-> method, res |-> res, err |-> err,
     call |-> call, typ |-> typ, opts |-> opts]

NoParams == -1

NoMsg == Msg("none", 0, "", "", "", "", "", 0)

Response(id, res) == Msg("num", id, "", res, "", "", "", 0)
ErrorResponse(id, code) == Msg("num", id, "", "", code, "", "", 0)
ServerRequest(id, method) == Msg("num", id, method, "", "", "", "", 0)
Elicitation(id, call) == Msg("num", id, "elicitation/create", "", "", call, "", 0)
Permission(id, opts) == Msg("num", id, "session/request_permission", "", "", "", "", opts)
Notification(method) == Msg("none", 0, method, "", "", "", "", 0)
\* A request whose id is a JSON string (JSON.parse keeps it a string).
StringIdRequest(method) == Msg("str", 0, method, "", "", "", "", 0)
CodexEvent(typ, call) == Msg("none", 0, "codex/event", "", "", call, typ, 0)

\* One line written to stdin.  kind: "request", "notification", "response"
\* or "error"; val is the result / decision / option / error code.
Out(c, kind, id, method, val) ==
    [kind |-> kind, id |-> id, method |-> method, val |-> val, to |-> c]

\* An emitted event.
Ev(name, a, i) == [n |-> name, a |-> a, b |-> "", i |-> i]
ExitEv(code, signal) == [n |-> "exit", a |-> code, b |-> signal, i |-> 0]

\* How a caller's promise stands: k is "none", "ok" or "err"; for "ok" v is
\* the result; for "err" e names the error and v, w, ms its parameters; n
\* counts the resolve / reject calls made on the promise.
Unsettled == [k |-> "none", e |-> "", v |-> "", w |-> "", ms |-> 0, n |-> 0]
Resolved(res) == [k |-> "ok", e |-> "", v |-> res, w |-> "", ms |-> 0]
RpcError(code) == [k |-> "err", e |-> "rpc", v |-> code, w |-> "", ms |-> 0]
TimeoutError(ms, method) == [k |-> "err", e |-> "timeout", v |-> method, w |-> "", ms |-> ms]
ExitError(code, signal) == [k |-> "err", e |-> "exit", v |-> code, w |-> signal, ms |-> 0]
ClosedError == [k |-> "err", e |-> "closed", v |-> "", w |-> "", ms |-> 0]
NotConnectedError == [k |-> "err", e |-> "notConnected", v |-> "", w |-> "", ms |-> 0]

\* resolve(x) / reject(x) on a promise: the first call decides, later calls
\* change nothing (they are counted).
Settle(o, x) ==
    IF o.k = "none"
    THEN [k |-> x.k, e |-> x.e, v |-> x.v, w |-> x.w, ms |-> x.ms, n |-> o.n + 1]
    ELSE [o EXCEPT !.n = @ + 1]

Without(f, ids) == [i \in DOMAIN f \ ids |-> f[i]]

Step(op, id, m, thrown, ev) ==
    [op |-> op, id |-> id, m |-> m, thrown |-> thrown, ev |-> ev]

\* ------------------------------------------------ BaseConnection helpers
\* setState: a stateChange event only when the state changes.
StateChange(from, to) ==
    IF from # to THEN <<Ev("stateChange", to, 0)>> ELSE <<>>

\* Requests whose promise has code waiting on it inside the connection
\* (connect's awaits, the tools/list re-fetch); "app" promises belong to
\* the host.
HasContinuation(tag) == tag # "app"

Cont(tag, call, id, x) ==
    [tag |-> tag, call |-> call, id |-> id, ok |-> (x.k = "ok"), val |-> x.v, e |-> x.e]

\* sendRequest, lines 151-180, for a connection whose child is c: the new
\* values of <<nextId, pending, timers, outcome, written>>.
SendRequestReusesFreedId(c, method, tag, call, ms) ==
    LET id == CHOOSE i \in 0..nextId :
                  i \notin DOMAIN pending /\ \A j \in 0..(i - 1) : j \in DOMAIN pending
    IN  IF c = NoChild
        THEN [nextId |-> nextId, pending |-> pending, timers |-> timers,
              outcome |-> outcome, written |-> written, accepted |-> FALSE]
        ELSE [nextId |-> nextId + 1,
              pending |-> pending @@ (id :> [method |-> method, tag |-> tag, call |-> call]),
              timers |-> timers @@ (id :> [ms |-> ms, method |-> method, tag |-> tag, call |-> call]),
              outcome |-> outcome @@ (id :> Unsettled),
              written |-> Append(written, Out(c, "request", id, method, "")),
              accepted |-> TRUE]

SendRequestAllocatesFirst(c, method, tag, call, ms) ==
    IF c = NoChild
    THEN [nextId |-> nextId + 1, pending |-> pending, timers |-> timers,
          outcome |-> outcome, written |-> written, accepted |-> FALSE]
    ELSE [nextId |-> nextId + 1,
          pending |-> pending @@ (nextId :> [method |-> method, tag |-> tag, call |-> call]),
          timers |-> timers @@ (nextId :> [ms |-> ms, method |-> method, tag |-> tag, call |-> call]),
          outcome |-> outcome @@ (nextId :> Unsettled),
          written |-> Append(written, Out(c, "request", nextId, method, "")),
          accepted |-> TRUE]

SendRequest(c, method, tag, call, ms) ==
    IF c = NoChild
    THEN [nextId |-> nextId, pending |-> pending, timers |-> timers,
          outcome |-> outcome, written |-> written, accepted |-> FALSE]
    ELSE [nextId |-> nextId + 1,
          pending |-> pending @@ (nextId :> [method |-> method, tag |-> tag, call |-> call]),
          timers |-> timers @@ (nextId :> [ms |-> ms, method |-> method, tag |-> tag, call |-> call]),
          outcome |-> outcome @@ (nextId :> Unsettled),
          written |-> Append(written, Out(c, "request", nextId, method, "")),
          accepted |-> TRUE]

Apply(r) ==
    /\ nextId' = r.nextId
    /\ pending' = r.pending
    /\ timers' = r.timers
    /\ outcome' = r.outcome
    /\ written' = r.written

\* The ids of a table in Map iteration (insertion) order: ids are inserted
\* in increasing order.
RECURSIVE Ascending(_)
Ascending(S) ==
    IF S = {} THEN <<>>
    ELSE LET lo == CHOOSE i \in S : \A j \in S : i <= j
         IN <<lo>> \o Ascending(S \ {lo})

RECURSIVE Conts(_, _)
Conts(ids, x) ==
    IF ids = <<>> THEN <<>>
    ELSE LET i == Head(ids)
             rest == Conts(Tail(ids), x)
         IN IF HasContinuation(pending[i].tag)
            THEN <<Cont(pending[i].tag, pending[i].call, i, x)>> \o rest
            ELSE rest

\* rejectAllPending, lines 320-326: the new <<pending, timers, outcome>>
\* and the continuations it schedules.
RejectAllPendingKeepsTimers(err) ==
    [pending |-> <<>>,
     timers |-> timers,
     outcome |-> [i \in DOMAIN outcome |->
                    IF i \in DOMAIN pending THEN Settle(outcome[i], err)
                    ELSE outcome[i]],
     micro |-> micro \o Conts(Ascending(DOMAIN pending), err)]

RejectAllPendingUnsettled(err) ==
    [pending |-> <<>>,
     timers |-> Without(timers, DOMAIN pending),
     outcome |-> outcome,
     micro |-> micro]

RejectAllPending(err) ==
    [pending |-> <<>>,
     timers |-> Without(timers, DOMAIN pending),
     outcome |-> [i \in DOMAIN outcome |->
                    IF i \in DOMAIN pending THEN Settle(outcome[i], err)
                    ELSE outcome[i]],
     micro |-> micro \o Conts(Ascending(DOMAIN pending), err)]

\* ------------------------------------------------------------ operations
Replies == Len(SelectSeq(written, LAMBDA w : w.kind \in {"response", "error"}))

\* AcpConnection.connect / McpConnection.connect up to the first await:
\* spawnProcess (lines 74-136), setState('initializing'), the initialize
\* request with the init timeout.
ConnectWithin(max) ==
    /\ micro = <<>>
    /\ Len(conn) < max
    /\ nextId < MaxId
    /\ LET p == Len(conn) + 1
           r == SendRequest(p, "initialize", "connect", p, DefaultInitTimeout)
       IN /\ child' = p
          /\ alive' = alive \cup {p}
          /\ state' = "initializing"
          /\ conn' = Append(conn, "init")
          /\ Apply(r)
          /\ step' = Step("connect", nextId, NoMsg, FALSE,
                          StateChange(state, "connecting")
                          \o <<Ev("stateChange", "connected", 0),
                               Ev("stateChange", "initializing", 0)>>)
    /\ UNCHANGED <<config, aside, setModelCalls, pendingAutoApprovals, tools, hostPending, approvalLog, micro>>

Connect == ConnectWithin(MaxSpawn)

\* Application-level requests of the two adapters: sendPrompt, setMode,
\* setConfigOption (AcpConnection) and callTool (McpConnection); each is
\* sendRequest(method, params) with the general request timeout.
AppMethods ==
    IF dialect = "acp"
    THEN {"session/prompt", "session/set_mode", "session/set_config_option"}
    ELSE {"tools/call"}

SendApp(method) ==
    /\ micro = <<>>
    /\ child # NoChild => nextId < MaxId
    /\ LET r == SendRequest(child, method, "app", 0, DefaultRequestTimeout)
       IN /\ Apply(r)
          /\ step' = Step("sendRequest", nextId, NoMsg, ~r.accepted, <<>>)
    /\ UNCHANGED <<config, aside, setModelCalls, state, child, alive, pendingAutoApprovals, tools,
                   hostPending, approvalLog, conn, micro>>

\* sendRequest(method, params, timeout) called by the host with or without
\* the timeout argument: `timeout ?? this.requestTimeout` (line 158).  The
\* step records the call's arguments: the method and, as opts, the timeout.
NoTimeout == -1
HostCall(method, timeout) == [NoMsg EXCEPT !.idk = "call", !.method = method, !.opts = timeout]

TimeoutMs(timeout) ==
    IF timeout = NoTimeout THEN DefaultRequestTimeout ELSE timeout

SendTimed(method, timeout) ==
    /\ micro = <<>>
    /\ child # NoChild => nextId < MaxId
    /\ LET r == SendRequest(child, method, "app", 0, TimeoutMs(timeout))
       IN /\ Apply(r)
          /\ step' = Step("sendRequest", nextId, HostCall(method, timeout), ~r.accepted, <<>>)
    /\ UNCHANGED <<config, aside, setModelCalls, state, child, alive, pendingAutoApprovals, tools,
                   hostPending, approvalLog, conn, micro>>

\* The deadline timer of request id fires (lines 160-163): the entry is
\* deleted and the caller rejected.
OnTimeoutKeepsEntry(id) ==
    [pending |-> pending,
     outcome |-> [outcome EXCEPT ![id] = Settle(@, TimeoutError(timers[id].ms,
                                                               timers[id].method))]]

OnTimeoutClearsTable(id) ==
    [pending |-> <<>>,
     outcome |-> [outcome EXCEPT ![id] = Settle(@, TimeoutError(timers[id].ms,
                                                               timers[id].method))]]

OnTimeout(id) ==
    [pending |-> Without(pending, {id}),
     outcome |-> [outcome EXCEPT ![id] = Settle(@, TimeoutError(timers[id].ms,
                                                               timers[id].method))]]

Timeout(id) ==
    /\ micro = <<>>
    /\ id \in DOMAIN timers
    /\ LET t == timers[id]
           o == OnTimeout(id)
       IN /\ pending' = o.pending
          /\ timers' = Without(timers, {id})
          /\ outcome' = o.outcome
          /\ micro' = IF HasContinuation(t.tag)
                      THEN Append(micro, Cont(t.tag, t.call, id,
                                              TimeoutError(t.ms, t.method)))
                      ELSE micro
    /\ step' = Step("timeout", id, NoMsg, FALSE, <<>>)
    /\ UNCHANGED <<config, aside, setModelCalls, state, child, alive, nextId, written,
                   pendingAutoApprovals, tools, hostPending, approvalLog, conn>>

\* The 'exit' event of a spawned process (lines 118-124).
ExitCodes == {<<"0", "null">>, <<"null", "SIGTERM">>}

OnExit(code, signal) ==
    [state |-> "closed", rej |-> RejectAllPending(ExitError(code, signal))]

Exit(p, cs) ==
    /\ micro = <<>>
    /\ p \in alive
    /\ alive' = alive \ {p}
    /\ LET e == OnExit(cs[1], cs[2])
       IN /\ state' = e.state
          /\ pending' = e.rej.pending
          /\ timers' = e.rej.timers
          /\ outcome' = e.rej.outcome
          /\ micro' = e.rej.micro
          /\ step' = Step("exit", p, NoMsg, FALSE,
                          StateChange(state, e.state) \o <<ExitEv(cs[1], cs[2])>>)
    /\ UNCHANGED <<config, aside, setModelCalls, child, nextId, written, pendingAutoApprovals, tools,
                   hostPending, approvalLog, conn>>

\* The 'error' event of a spawned process (lines 126-131): the command
\* could not be started. this.child keeps the ChildProcess object.
SpawnFailure == [k |-> "err", e |-> "spawn", v |-> "ENOENT", w |-> "", ms |-> 0]

OnSpawnErrorKeepsPending(err) ==
    [state |-> "error",
     rej |-> [pending |-> pending, timers |-> timers, outcome |-> outcome,
              micro |-> micro]]

OnSpawnError(err) ==
    [state |-> "error", rej |-> RejectAllPending(err)]

SpawnError(p) ==
    /\ micro = <<>>
    /\ p \in alive
    /\ alive' = alive \ {p}
    /\ LET e == OnSpawnError(SpawnFailure)
       IN /\ state' = e.state
          /\ pending' = e.rej.pending
          /\ timers' = e.rej.timers
          /\ outcome' = e.rej.outcome
          /\ micro' = e.rej.micro
          /\ step' = Step("spawnError", p, NoMsg, FALSE,
                          StateChange(state, e.state)
                          \o <<Ev("error", SpawnFailure.v, 0)>>)
    /\ UNCHANGED <<config, aside, setModelCalls, child, nextId, written, pendingAutoApprovals, tools,
                   hostPending, approvalLog, conn>>

\* disconnect(), lines 250-257.
OnDisconnectForgetsPending ==
    [child |-> NoChild, state |-> "disconnected",
     rej |-> [pending |-> pending, timers |-> timers, outcome |-> outcome,
              micro |-> micro],
     written |-> written]

OnDisconnect ==
    [child |-> NoChild, state |-> "disconnected",
     rej |-> RejectAllPending(ClosedError), written |-> written]

Disconnect ==
    /\ micro = <<>>
    /\ LET d == OnDisconnect
       IN /\ child' = d.child
          /\ state' = d.state
          /\ pending' = d.rej.pending
          /\ timers' = d.rej.timers
          /\ outcome' = d.rej.outcome
          /\ micro' = d.rej.micro
          /\ written' = d.written
          /\ step' = Step("disconnect", 0, NoMsg, FALSE, StateChange(state, d.state))
    /\ UNCHANGED <<config, aside, setModelCalls, alive, nextId, pendingAutoApprovals, tools,
                   hostPending, approvalLog, conn>>

\* ------------------------------------------------------- inbound routing
\* handleMessage's classification, lines 264-292.
RouteMethodFirst(m) ==
    IF m.idk = "num" /\ m.method # "" THEN "serverRequest"
    ELSE IF m.idk = "num" /\ m.id \in DOMAIN pending THEN "response"
    ELSE IF m.method # "" /\ m.idk = "none" THEN "notification"
    ELSE "dropped"

Route(m) ==
    IF m.idk = "num" /\ m.id \in DOMAIN pending THEN "response"
    ELSE IF m.idk # "none" /\ m.method # "" /\ m.idk = "num" THEN "serverRequest"
    ELSE IF m.method # "" /\ m.idk = "none" THEN "notification"
    ELSE "dropped"

\* What a pending request is settled with by a response (lines 269-276).
ResponseOutcome(m) ==
    IF m.err # "" THEN RpcError(m.err) ELSE Resolved(m.res)

\* What a handler does besides settling: reply is the response it passes to
\* sendResponse / sendErrorResponse (at most one), paa the new
\* pendingAutoApprovals, host the requests it surfaces to the host, fetch
\* whether it issues a tools/list request, ev the events it emits.
Effect(reply, paa, host, fetch, ev) ==
    [reply |-> reply, paa |-> paa, host |-> host, fetch |-> fetch, ev |-> ev]

Reply(kind, id, val) == [kind |-> kind, id |-> id, val |-> val]

\* A handler that throws: the marker stands for the exception, which the
\* stdout line loop catches; it is no emitted event.
TypeError == Ev("TypeError", "", 0)
Threw(e) == \E k \in 1..Len(e.ev) : e.ev[k] = TypeError

MethodNotFound(m) ==
    Effect(<<Reply("error", m.id, "-32601")>>, pendingAutoApprovals, {}, FALSE, <<>>)

\* McpConnection.handleServerRequest, part_007 lines 140-186.
McpServerRequestFallsThrough(m) ==
    IF m.method = "elicitation/create"
    THEN IF m.call # "" /\ m.call \in DOMAIN pendingAutoApprovals
         THEN Effect(<<Reply("response", m.id, pendingAutoApprovals[m.call]),
                       Reply("response", m.id, "approved")>>,
                     Without(pendingAutoApprovals, {m.call}), {}, FALSE, <<>>)
         ELSE IF autoApprove \/ yoloMode
         THEN Effect(<<Reply("response", m.id, "approved")>>,
                     pendingAutoApprovals, {}, FALSE, <<>>)
         ELSE Effect(<<>>, pendingAutoApprovals, {m.id}, FALSE,
                     <<Ev("approvalRequest", m.call, m.id)>>)
    ELSE MethodNotFound(m)

McpServerRequestKeepsEntry(m) ==
    IF m.method = "elicitation/create"
    THEN IF m.call # "" /\ m.call \in DOMAIN pendingAutoApprovals
         THEN Effect(<<Reply("response", m.id, pendingAutoApprovals[m.call])>>,
                     pendingAutoApprovals, {}, FALSE, <<>>)
         ELSE IF autoApprove \/ yoloMode
         THEN Effect(<<Reply("response", m.id, "approved")>>,
                     pendingAutoApprovals, {}, FALSE, <<>>)
         ELSE Effect(<<>>, pendingAutoApprovals, {m.id}, FALSE,
                     <<Ev("approvalRequest", m.call, m.id)>>)
    ELSE MethodNotFound(m)

McpServerRequest(m) ==
    IF m.method = "elicitation/create"
    THEN IF m.call # "" /\ m.call \in DOMAIN pendingAutoApprovals
         THEN Effect(<<Reply("response", m.id, pendingAutoApprovals[m.call])>>,
                     Without(pendingAutoApprovals, {m.call}), {}, FALSE, <<>>)
         ELSE IF autoApprove \/ yoloMode
         THEN Effect(<<Reply("response", m.id, "approved")>>,
                     pendingAutoApprovals, {}, FALSE, <<>>)
         ELSE Effect(<<>>, pendingAutoApprovals, {m.id}, FALSE,
                     <<Ev("approvalRequest", m.call, m.id)>>)
    ELSE MethodNotFound(m)

\* McpConnection.handleNotification, part_007 lines 191-228.
McpNotificationStoresAlways(m) ==
    IF m.method = "codex/event"
    THEN Effect(<<>>,
                IF /\ m.typ = "exec_approval_request"
                   /\ m.call # ""
                THEN [c \in DOMAIN pendingAutoApprovals \cup {m.call} |-> "approved"]
                ELSE pendingAutoApprovals,
                {}, FALSE, <<Ev("codexEvent", m.typ, 0)>>)
    ELSE IF m.method = "notifications/tools/list_changed"
    THEN Effect(<<>>, pendingAutoApprovals, {}, TRUE, <<>>)
    ELSE Effect(<<>>, pendingAutoApprovals, {}, FALSE,
                <<Ev("notification", m.method, 0)>>)

McpNotification(m) ==
    IF m.method = "codex/event"
    THEN Effect(<<>>,
                IF /\ m.typ = "exec_approval_request"
                   /\ m.call # ""
                   /\ (autoApprove \/ yoloMode)
                THEN [c \in DOMAIN pendingAutoApprovals \cup {m.call} |-> "approved"]
                ELSE pendingAutoApprovals,
                {}, FALSE, <<Ev("codexEvent", m.typ, 0)>>)
    ELSE IF m.method = "notifications/tools/list_changed"
    THEN Effect(<<>>, pendingAutoApprovals, {}, TRUE, <<>>)
    ELSE Effect(<<>>, pendingAutoApprovals, {}, FALSE,
                <<Ev("notification", m.method, 0)>>)

\* AcpConnection.handleServerRequest, AcpConnection.ts lines 219-252.
\* `params.options?.length` on absent params is a TypeError, evaluated only
\* when this.autoApprove is true.
AcpServerRequest(m) ==
    IF m.method = "session/request_permission"
    THEN IF autoApprove /\ m.opts = NoParams
         THEN Effect(<<>>, pendingAutoApprovals, {}, FALSE, <<TypeError>>)
         ELSE IF autoApprove /\ m.opts > 0
         THEN Effect(<<Reply("response", m.id, "option1")>>,
                     pendingAutoApprovals, {}, FALSE, <<>>)
         ELSE Effect(<<>>, pendingAutoApprovals, {m.id}, FALSE,
                     <<Ev("permissionRequest", "", m.id)>>)
    ELSE IF m.method = "fs/read_text_file"
    THEN Effect(<<>>, pendingAutoApprovals, {m.id}, FALSE, <<Ev("fileRead", "", m.id)>>)
    ELSE IF m.method = "fs/write_text_file"
    THEN Effect(<<>>, pendingAutoApprovals, {m.id}, FALSE, <<Ev("fileWrite", "", m.id)>>)
    ELSE MethodNotFound(m)

\* An event of a session update: b is the session id passed along.
SessionEv(name, a, sid) == [n |-> name, a |-> a, b |-> sid, i |-> 0]

\* AcpConnection.handleNotification, AcpConnection.ts lines 257-312
\* (m.typ is update.sessionUpdate, "" when params.update is absent; m.res is
\* update.content.text or update.plan, "" when absent or empty; m.call is
\* params.sessionId).
AcpNotification(m) ==
    IF m.method = "session/update"
    THEN Effect(<<>>, pendingAutoApprovals, {}, FALSE,
                <<SessionEv("sessionUpdate", m.typ, m.call)>>
                \o (IF m.typ = "agent_message_chunk" /\ m.res # ""
                    THEN <<SessionEv("messageChunk", m.res, m.call)>>
                    ELSE IF m.typ = "agent_thought_chunk" /\ m.res # ""
                    THEN <<SessionEv("thoughtChunk", m.res, m.call)>>
                    ELSE IF m.typ = "tool_call"
                    THEN <<SessionEv("toolCall", "", m.call)>>
                    ELSE IF m.typ = "tool_call_update"
                    THEN <<SessionEv("toolCallUpdate", "", m.call)>>
                    ELSE IF m.typ = "plan" /\ m.res # ""
                    THEN <<SessionEv("plan", m.res, m.call)>>
                    ELSE <<>>))
    ELSE Effect(<<>>, pendingAutoApprovals, {}, FALSE,
                <<Ev("notification", m.method, 0)>>)

HandleServerRequest(m) ==
    IF dialect = "acp" THEN AcpServerRequest(m) ELSE McpServerRequest(m)

HandleNotification(m) ==
    IF dialect = "acp" THEN AcpNotification(m) ELSE McpNotification(m)

\* The pending request a response settles (lines 264-266).
MatchedBySendOrder(m) == CHOOSE i \in DOMAIN pending : \A j \in DOMAIN pending : i <= j

Matched(m) == m.id

\* sendResponse / sendErrorResponse for each reply of a handler, in order
\* (lines 212-245): written to the child's stdin; without a child the first
\* one throws and nothing is written.
WriteReplies(replies) ==
    IF child = NoChild THEN written
    ELSE written \o [k \in 1..Len(replies) |->
                       Out(child, replies[k].kind, replies[k].id, "", replies[k].val)]

\* The approval messages of the tool dialect, as handled.
IsApprovalMsg(m) == m.method \in {"codex/event", "elicitation/create"}
LogOf(call) == IF call \in DOMAIN approvalLog THEN approvalLog[call] ELSE <<>>
Logged(m, route, thrown) ==
    [kind |-> IF route = "notification" THEN "event" ELSE "elicitation",
     call |-> m.call, id |-> m.id, typ |-> m.typ, thrown |-> thrown]

\* One complete stdout line that parsed as JSON is handed to handleMessage
\* (lines 90-100, 262-293).  An exception thrown by a handler (sendResponse
\* without a child) is caught by the line loop's catch and logged.
Deliver(m) ==
    /\ Len(conn) > 0
    /\ LET route == Route(m)
       IN CASE route = "response" ->
                 LET id == Matched(m)
                     p == pending[id]
                     x == ResponseOutcome(m)
                 IN /\ HasContinuation(p.tag) => Len(micro) < MaxMicro
                    /\ pending' = Without(pending, {id})
                    /\ timers' = Without(timers, {id})
                    /\ outcome' = [outcome EXCEPT ![id] = Settle(@, x)]
                    /\ micro' = IF HasContinuation(p.tag)
                                THEN Append(micro, Cont(p.tag, p.call, id, x))
                                ELSE micro
                    /\ step' = Step("response", id, m, FALSE, <<>>)
                    /\ UNCHANGED <<nextId, written, pendingAutoApprovals, hostPending,
                                   approvalLog>>
            [] route \in {"serverRequest", "notification"} ->
                 LET e == IF route = "serverRequest" THEN HandleServerRequest(m)
                          ELSE HandleNotification(m)
                     thrown == (e.reply # <<>> /\ child = NoChild) \/ Threw(e)
                     r == SendRequest(child, "tools/list", "refetch", 0,
                                      DefaultRequestTimeout)
                     logs == dialect = "mcp" /\ IsApprovalMsg(m)
                 IN /\ child # NoChild => Replies + Len(e.reply) <= MaxReplies
                    /\ e.fetch /\ child # NoChild => nextId < MaxId
                    /\ e.fetch /\ child = NoChild => Len(micro) < MaxMicro
                    /\ logs => Len(LogOf(m.call)) < MaxApprovalLog
                    /\ pendingAutoApprovals' = e.paa
                    /\ hostPending' = hostPending \cup e.host
                    /\ approvalLog' =
                         IF logs
                         THEN [c \in DOMAIN approvalLog \cup {m.call} |->
                                 IF c = m.call
                                 THEN Append(LogOf(c), Logged(m, route, thrown))
                                 ELSE approvalLog[c]]
                         ELSE approvalLog
                    /\ IF e.fetch
                       THEN /\ nextId' = r.nextId
                            /\ pending' = r.pending
                            /\ timers' = r.timers
                            /\ outcome' = r.outcome
                            /\ written' = r.written
                            /\ micro' = IF r.accepted THEN micro
                                        ELSE Append(micro,
                                               Cont("refetch", 0, 0, NotConnectedError))
                       ELSE /\ written' = WriteReplies(e.reply)
                            /\ UNCHANGED <<nextId, pending, timers, outcome, micro>>
                    /\ step' = Step(route, m.id, m, thrown,
                                    SelectSeq(e.ev, LAMBDA x : x # TypeError)
                                    \o (IF thrown THEN <<Ev("log", "stdout non-json", 0)>>
                                             ELSE <<>>))
            [] OTHER ->
                 /\ step' = Step("dropped", 0, m, FALSE, <<>>)
                 /\ UNCHANGED <<nextId, pending, timers, outcome, written, micro,
                                pendingAutoApprovals, hostPending, approvalLog>>
    /\ UNCHANGED <<config, aside, setModelCalls, state, child, alive, tools, conn>>

\* One complete non-blank stdout line (lines 90-100).  json tells whether
\* JSON.parse accepts the text; msg is the message the text decodes to,
\* for a line that is not valid JSON the message it resembles (say, a
\* response cut off before its closing brace).
Line(json, m) == [json |-> json, msg |-> m]

ParseLineLenient(l) == [ok |-> TRUE, msg |-> l.msg]

ParseLine(l) ==
    IF l.json THEN [ok |-> TRUE, msg |-> l.msg] ELSE [ok |-> FALSE, msg |-> NoMsg]

StdoutLine(l) ==
    LET p == ParseLine(l)
    IN  IF p.ok
        THEN Deliver(p.msg)
        ELSE /\ Len(conn) > 0
             /\ step' = Step("nonJson", 0, l.msg, FALSE,
                             <<Ev("log", "stdout non-json", 0)>>)
             /\ UNCHANGED <<config, aside, setModelCalls, state, child, alive, nextId, pending,
                            timers, outcome, written, pendingAutoApprovals, tools,
                            hostPending, approvalLog, conn, micro>>

\* One complete non-blank stderr line (lines 105-115): what the handler
\* does with it - whether the line is parsed and dispatched, and the
\* events emitted.
OnStderrLineAsProtocol(l) ==
    [dispatch |-> ParseLine(l).ok, ev |-> <<Ev("log", "stderr", 0)>>]

OnStderrLine(l) ==
    [dispatch |-> FALSE, ev |-> <<Ev("log", "stderr", 0)>>]

StderrLine(l) ==
    LET h == OnStderrLine(l)
    IN  IF h.dispatch
        THEN Deliver(l.msg)
        ELSE /\ Len(conn) > 0
             /\ step' = Step("stderr", 0, l.msg, FALSE, h.ev)
             /\ UNCHANGED <<config, aside, setModelCalls, state, child, alive, nextId, pending,
                            timers, outcome, written, pendingAutoApprovals, tools,
                            hostPending, approvalLog, conn, micro>>

\* The catalog a tools/list result carries: `result?.tools ?? []`.
ToolsIn(res) ==
    CASE res = "r1" -> <<"t1">>
      [] res = "r2" -> <<"t1", "t2">>
      [] OTHER -> <<>>

\* The code after the await that continuation c resumes.
\*   connect, AcpConnection.ts lines 92-103 and part_007 lines 87-97;
\*   the re-fetch's then / catch, part_007 lines 215-221.
ConnectResumeIgnoresFailure(c) ==
    LET at == conn[c.call]
    IN  IF at = "init" /\ dialect = "acp"
        THEN [conn |-> "session", state |-> state,
              send |-> <<[method |-> "session/new", ms |-> DefaultInitTimeout]>>,
              notify |-> FALSE, tools |-> tools]
        ELSE IF at = "init"
        THEN [conn |-> "tools", state |-> state,
              send |-> <<[method |-> "tools/list", ms |-> DefaultRequestTimeout]>>,
              notify |-> TRUE, tools |-> tools]
        ELSE IF ~c.ok THEN [conn |-> "failed", state |-> state, send |-> <<>>,
                            notify |-> FALSE, tools |-> tools]
        ELSE IF at = "session"
        THEN [conn |-> "ok", state |-> "ready", send |-> <<>>, notify |-> FALSE,
              tools |-> tools]
        ELSE [conn |-> "ok", state |-> "ready", send |-> <<>>, notify |-> FALSE,
              tools |-> ToolsIn(c.val)]

ConnectResumeReadyBeforeCatalog(c) ==
    LET at == conn[c.call]
    IN  IF ~c.ok THEN [conn |-> "failed", state |-> state, send |-> <<>>, notify |-> FALSE,
                       tools |-> tools]
        ELSE IF at = "init" /\ dialect = "acp"
        THEN [conn |-> "session", state |-> state,
              send |-> <<[method |-> "session/new", ms |-> DefaultInitTimeout]>>,
              notify |-> FALSE, tools |-> tools]
        ELSE IF at = "init"
        THEN [conn |-> "tools", state |-> "ready",
              send |-> <<[method |-> "tools/list", ms |-> DefaultRequestTimeout]>>,
              notify |-> TRUE, tools |-> tools]
        ELSE IF at = "session"
        THEN [conn |-> "ok", state |-> "ready", send |-> <<>>, notify |-> FALSE,
              tools |-> tools]
        ELSE [conn |-> "ok", state |-> "ready", send |-> <<>>, notify |-> FALSE,
              tools |-> ToolsIn(c.val)]

ConnectResume(c) ==
    LET at == conn[c.call]
    IN  IF ~c.ok THEN [conn |-> "failed", state |-> state, send |-> <<>>, notify |-> FALSE,
                       tools |-> tools]
        ELSE IF at = "init" /\ dialect = "acp"
        THEN [conn |-> "session", state |-> state,
              send |-> <<[method |-> "session/new", ms |-> DefaultInitTimeout]>>,
              notify |-> FALSE, tools |-> tools]
        ELSE IF at = "init"
        THEN [conn |-> "tools", state |-> state,
              send |-> <<[method |-> "tools/list", ms |-> DefaultRequestTimeout]>>,
              notify |-> TRUE, tools |-> tools]
        ELSE IF at = "session"
        THEN [conn |-> "ok", state |-> "ready", send |-> <<>>, notify |-> FALSE,
              tools |-> tools]
        ELSE [conn |-> "ok", state |-> "ready", send |-> <<>>, notify |-> FALSE,
              tools |-> ToolsIn(c.val)]

\* The then / catch of the tools/list re-fetch (part_007 lines 215-221)
\* resumed by continuation c: the new catalog and the event emitted.
RefetchedMerges(c) ==
    IF c.ok
    THEN [tools |-> tools \o SelectSeq(ToolsIn(c.val),
                                       LAMBDA t : \A k \in DOMAIN tools : tools[k] # t),
          ev |-> <<Ev("toolsChanged", "", 0)>>]
    ELSE [tools |-> tools, ev |-> <<Ev("error", "", 0)>>]

Refetched(c) ==
    IF c.ok
    THEN [tools |-> ToolsIn(c.val), ev |-> <<Ev("toolsChanged", "", 0)>>]
    ELSE [tools |-> tools, ev |-> <<Ev("error", "", 0)>>]

\* AcpConnection.setModel (AcpConnection.ts lines 153-164) after an await:
\* the call it leaves behind and whether the catch block sends the
\* session/set_config_option fallback.  at is "primary" while
\* session/set_model is awaited, "fallback" while the fallback is awaited,
\* then "ok" or "failed"; first is how the primary request failed ("" if it
\* did not), e how the call failed.
SetModelResume(c) ==
    LET at == setModelCalls[c.call].at
    IN  IF c.ok
        THEN [call |-> [setModelCalls[c.call] EXCEPT !.at = "ok"], fallback |-> FALSE]
        ELSE IF at = "primary"
        THEN [call |-> [at |-> "fallback", first |-> c.e, e |-> ""], fallback |-> TRUE]
        ELSE [call |-> [setModelCalls[c.call] EXCEPT !.at = "failed", !.e = c.e],
              fallback |-> FALSE]

\* setModel up to its first await: the session/set_model request.
SetModel ==
    /\ micro = <<>>
    /\ Len(setModelCalls) < MaxSetModel
    /\ child # NoChild => nextId < MaxId
    /\ LET n == Len(setModelCalls) + 1
           r == SendRequest(child, "session/set_model", "setModel", n,
                            DefaultRequestTimeout)
       IN /\ Apply(r)
          /\ setModelCalls' = Append(setModelCalls, [at |-> "primary", first |-> "", e |-> ""])
          /\ micro' = IF r.accepted THEN micro
                      ELSE Append(micro, Cont("setModel", n, 0, NotConnectedError))
          /\ step' = Step("setModel", nextId, NoMsg, FALSE, <<>>)
    /\ UNCHANGED <<config, aside, state, child, alive, pendingAutoApprovals, tools,
                   hostPending, approvalLog, conn>>

RunMicro ==
    /\ micro # <<>>
    /\ LET c == Head(micro)
           rest == Tail(micro)
       IN IF c.tag = "connect"
          THEN LET k == ConnectResume(c)
                   \* sendNotification throws without a child: connect fails there
                   thrown == k.notify /\ child = NoChild
                   w == IF k.notify /\ ~thrown
                        THEN Append(written,
                               Out(child, "notification", 0, "notifications/initialized", ""))
                        ELSE written
                   r == SendRequest(child, k.send[1].method, "connect", c.call, k.send[1].ms)
               IN /\ k.send # <<>> /\ child # NoChild => nextId < MaxId
                  /\ state' = k.state
                  /\ tools' = k.tools
                  /\ IF k.send # <<>> /\ ~thrown
                     THEN /\ nextId' = r.nextId
                          /\ pending' = r.pending
                          /\ timers' = r.timers
                          /\ outcome' = r.outcome
                          /\ written' = IF r.accepted
                                        THEN Append(w, Out(child, "request", nextId,
                                                           k.send[1].method, ""))
                                        ELSE w
                          /\ micro' = IF r.accepted THEN rest
                                      ELSE Append(rest, Cont("connect", c.call, 0,
                                                             NotConnectedError))
                          /\ conn' = [conn EXCEPT ![c.call] = k.conn]
                     ELSE /\ written' = w
                          /\ micro' = rest
                          /\ conn' = [conn EXCEPT ![c.call] =
                                        IF thrown THEN "failed" ELSE k.conn]
                          /\ UNCHANGED <<nextId, pending, timers, outcome>>
                  /\ step' = Step("resume", c.id, NoMsg, thrown, StateChange(state, k.state))
                  /\ UNCHANGED setModelCalls
          ELSE IF c.tag = "setModel"
          THEN LET k == SetModelResume(c)
                   r == SendRequest(child, "session/set_config_option", "setModel",
                                    c.call, DefaultRequestTimeout)
               IN /\ k.fallback /\ child # NoChild => nextId < MaxId
                  /\ setModelCalls' = [setModelCalls EXCEPT ![c.call] = k.call]
                  /\ IF k.fallback
                     THEN /\ Apply(r)
                          /\ micro' = IF r.accepted THEN rest
                                      ELSE Append(rest, Cont("setModel", c.call, 0,
                                                             NotConnectedError))
                     ELSE /\ micro' = rest
                          /\ UNCHANGED <<nextId, pending, timers, outcome, written>>
                  /\ step' = Step("setModelResume", c.id, NoMsg, FALSE, <<>>)
                  /\ UNCHANGED <<state, tools, conn>>
          ELSE \* the tools/list re-fetch
               /\ tools' = Refetched(c).tools
               /\ micro' = rest
               /\ step' = Step("refetched", c.id, NoMsg, FALSE, Refetched(c).ev)
               /\ UNCHANGED <<state, nextId, pending, timers, outcome, written, conn,
                              setModelCalls>>
    /\ UNCHANGED <<config, aside, child, alive, pendingAutoApprovals, hostPending, approvalLog>>

\* The host answers a request that was surfaced to it: respondToPermission /
\* respondToFileRead / respondToFileWrite (AcpConnection.ts lines 192-214)
\* or the approvalRequest callback (part_007 lines 161-163), all of which
\* are sendResponse(id, ...) (lines 212-224; throws without a child).
Decisions == {"approved", "denied"}

HostDecide(id, d) ==
    /\ micro = <<>>
    /\ id \in hostPending
    /\ child # NoChild => Replies < MaxReplies
    /\ written' = IF child # NoChild
                  THEN Append(written, Out(child, "response", id, "", d))
                  ELSE written
    /\ step' = Step("hostDecide", id, [NoMsg EXCEPT !.idk = "call", !.res = d],
                    child = NoChild, <<>>)
    /\ UNCHANGED <<config, aside, setModelCalls, state, child, alive, nextId, pending, timers, outcome,
                   pendingAutoApprovals, tools, hostPending, approvalLog, conn, micro>>

\* ----------------------------------------------------------- killProcess
\* utils/process.ts killProcess (lines 19-50) on the child processes in
\* KillTargets.  Per target: pid (child.pid is defined), handle (the
\* process has not emitted 'exit' yet), killed (child.killed), sent (the
\* signals delivered to it, "taskkill" for a successful taskkill), armed
\* (force-kill timers armed: timer -> ms), onExit (timers whose
\* once('exit') listener is registered), calls (killProcess calls made).
KillTargets == {1, 2}
Platforms == {"posix", "win32"}
ForceTimeouts == {DefaultForceTimeout, 100}

KpInit(platform, pids) ==
    [platform |-> platform,
     of |-> [c \in KillTargets |->
               [pid |-> c \in pids, handle |-> c \in pids, killed |-> FALSE,
                sent |-> <<>>, armed |-> <<>>, onExit |-> {}, calls |-> 0]]]

\* child.kill(sig): the signal is delivered and child.killed becomes true
\* while the process handle exists; afterwards kill() returns false and
\* changes nothing.
Kill(p, sig) ==
    IF p.handle
    THEN [p EXCEPT !.killed = TRUE, !.sent = Append(@, sig)]
    ELSE p

\* The force-kill timer callback, lines 40-44.
OnForceKillTimer(p) ==
    IF ~p.killed THEN Kill(p, "SIGKILL") ELSE p

KillProcess(c, ms, taskkillOk) ==
    /\ kp.of[c].calls < MaxKillCalls
    /\ LET p == [kp.of[c] EXCEPT !.calls = @ + 1]
           t == p.calls
           q == IF ~p.pid \/ p.killed
                THEN p
                ELSE IF kp.platform = "win32"
                THEN IF taskkillOk
                     THEN [p EXCEPT !.sent = Append(@, "taskkill")]
                     ELSE Kill(p, "SIGKILL")
                ELSE [Kill(p, "SIGTERM") EXCEPT !.armed = @ @@ (t :> ms),
                                                 !.onExit = @ \cup {t}]
       IN /\ kp' = [kp EXCEPT !.of[c] = q]
          /\ step' = Step("killProcess", c, NoMsg, FALSE, <<>>)
    /\ UNCHANGED <<connection, client, io>>

\* The force-kill timer t of target c fires.
ForceKillTimer(c, t) ==
    /\ t \in DOMAIN kp.of[c].armed
    /\ LET p == [kp.of[c] EXCEPT !.armed = Without(@, {t})]
       IN kp' = [kp EXCEPT !.of[c] = OnForceKillTimer(p)]
    /\ step' = Step("forceKillTimer", c, NoMsg, FALSE, <<>>)
    /\ UNCHANGED <<connection, client, io>>

\* Target c emits 'exit': the once('exit') listeners clear their timers
\* (lines 47-49).
ChildExit(c) ==
    /\ kp.of[c].pid
    /\ kp.of[c].handle
    /\ kp' = [kp EXCEPT !.of[c] = [@ EXCEPT !.handle = FALSE,
                                             !.armed = Without(@, kp.of[c].onExit),
                                             !.onExit = {}]]
    /\ step' = Step("childExit", c, NoMsg, FALSE, <<>>)
    /\ UNCHANGED <<connection, client, io>>

\* ---------------------------------------------------- UnifiedAgentClient
\* client.acp is this.acpConnection (NoConnection for null); conns has one
\* entry per AcpConnection the client created: alive (its subprocess has
\* not exited) and asked (disconnect() was called on it, which kills the
\* subprocess); calls has one entry per connect() / disconnect() call of
\* the host; cq holds the continuations of the client's awaits, in order.
\* activeCli and sessionId are this.activeCli and this.sessionId, each
\* recorded as the connection whose connectAcp call assigned it
\* (NoConnection for null).
ClientCall(op, at, cli) == [op |-> op, at |-> at, cli |-> cli, own |-> NoConnection]

ClientInit ==
    [acp |-> NoConnection, conns |-> <<>>, calls |-> <<>>, cq |-> <<>>,
     activeCli |-> NoConnection, sessionId |-> NoConnection]

\* disconnect() up to its await (lines 218-227), entered by call k of cl:
\* with a connection held, AcpConnection.disconnect() is called on it and
\* the rest waits; with none held the function clears activeCli and
\* sessionId and returns.
DisconnectBody(cl, k) ==
    IF cl.acp # NoConnection
    THEN [cl EXCEPT !.conns[cl.acp].asked = TRUE,
                    !.cq = Append(@, [tag |-> "disconnectResume", call |-> k])]
    ELSE IF cl.calls[k].op = "connect"
         THEN [cl EXCEPT !.cq = Append(@, [tag |-> "afterDisconnect", call |-> k]),
                         !.activeCli = NoConnection, !.sessionId = NoConnection]
         ELSE [cl EXCEPT !.calls[k].at = "done",
                         !.activeCli = NoConnection, !.sessionId = NoConnection]

\* connectAcp up to `await this.acpConnection.connect(...)` (lines 79-103):
\* a new AcpConnection is stored in this.acpConnection and its connect()
\* spawns the subprocess.
ConnectAcp(cl, k) ==
    LET c == Len(cl.conns) + 1
    IN [cl EXCEPT !.conns = Append(@, [alive |-> TRUE, asked |-> FALSE]),
                  !.acp = c,
                  !.calls[k].at = "connecting",
                  !.calls[k].own = c]

\* connect(options), lines 55-57, up to `await this.disconnect()`.
ClientConnect(cli) ==
    /\ Len(client.calls) < MaxClientCalls
    /\ LET k == Len(client.calls) + 1
           cl == [client EXCEPT !.calls = Append(@, ClientCall("connect", "disconnecting", cli))]
       IN /\ client' = DisconnectBody(cl, k)
          /\ step' = Step("clientConnect", k, NoMsg, FALSE, <<>>)
    /\ UNCHANGED <<connection, kp, io>>

\* disconnect() called by the host.
ClientDisconnect ==
    /\ Len(client.calls) < MaxClientCalls
    /\ LET k == Len(client.calls) + 1
           cl == [client EXCEPT !.calls = Append(@, ClientCall("disconnect", "disconnecting", FALSE))]
       IN /\ client' = DisconnectBody(cl, k)
          /\ step' = Step("clientDisconnect", k, NoMsg, FALSE, <<>>)
    /\ UNCHANGED <<connection, kp, io>>

\* The oldest queued continuation runs.  disconnectResume: lines 221-226
\* after the await (removeAllListeners on a null this.acpConnection is a
\* TypeError that rejects the call).  afterDisconnect: connect() after
\* `await this.disconnect()`, lines 59-73.
ClientMicro ==
    /\ client.cq # <<>>
    /\ LET h == Head(client.cq)
           k == h.call
           cl == [client EXCEPT !.cq = Tail(@)]
       IN /\ client' =
                IF h.tag = "disconnectResume"
                THEN IF cl.acp = NoConnection
                     THEN [cl EXCEPT !.calls[k].at = "failed"]
                     ELSE IF cl.calls[k].op = "connect"
                          THEN [cl EXCEPT !.acp = NoConnection,
                                          !.activeCli = NoConnection,
                                          !.sessionId = NoConnection,
                                          !.cq = Append(@, [tag |-> "afterDisconnect",
                                                            call |-> k])]
                          ELSE [cl EXCEPT !.acp = NoConnection,
                                          !.activeCli = NoConnection,
                                          !.sessionId = NoConnection,
                                          !.calls[k].at = "done"]
                ELSE IF cl.calls[k].cli
                     THEN ConnectAcp(cl, k)
                     ELSE [cl EXCEPT !.calls[k].at = "detecting"]
          /\ step' = Step(h.tag, k, NoMsg,
                          h.tag = "disconnectResume" /\ cl.acp = NoConnection, <<>>)
    /\ UNCHANGED <<connection, kp, io>>

\* detector.getPreferred() settles for call k (lines 63-70): with a CLI
\* found connectAcp runs, with none the call throws.
Detected(k, found) ==
    /\ client.cq = <<>>
    /\ client.calls[k].at = "detecting"
    /\ client' = IF found THEN ConnectAcp(client, k)
                 ELSE [client EXCEPT !.calls[k].at = "failed"]
    /\ step' = Step("detected", k, NoMsg, ~found, <<>>)
    /\ UNCHANGED <<connection, kp, io>>

\* `await this.acpConnection.connect(...)` of call k settles (lines 103,
\* 123-130): resolved only for a subprocess that still runs; then
\* activeCli and sessionId are assigned from this call's cli and session.
SessionSettled(k, ok) ==
    /\ client.cq = <<>>
    /\ client.calls[k].at = "connecting"
    /\ ok => LET c == client.conns[client.calls[k].own]
             IN c.alive /\ ~c.asked
    /\ client' = IF ok
                 THEN [client EXCEPT !.calls[k].at = "done",
                                     !.activeCli = client.calls[k].own,
                                     !.sessionId = client.calls[k].own]
                 ELSE [client EXCEPT !.calls[k].at = "failed"]
    /\ step' = Step("sessionSettled", k, NoMsg, ~ok, <<>>)
    /\ UNCHANGED <<connection, kp, io>>

\* The subprocess of connection c exits.
ConnectionExit(c) ==
    /\ client.cq = <<>>
    /\ client.conns[c].alive
    /\ client' = [client EXCEPT !.conns[c].alive = FALSE]
    /\ step' = Step("connectionExit", c, NoMsg, FALSE, <<>>)
    /\ UNCHANGED <<connection, kp, io>>

\* ------------------------------------------------------ the stdout pipe
\* The stdout 'data' handler (BaseConnection.ts lines 85-102) on a stream
\* of bytes that arrives in chunks.  The text is made of "a", a space, a
\* newline and "E", a character whose UTF-8 encoding is the two bytes
\* "C3" "A9"; "?" is U+FFFD.  io.rest holds the bytes still to arrive,
\* io.stdoutBuffer is this.stdoutBuffer, io.dispatched the trimmed lines
\* handed to JSON.parse / handleMessage so far, io.stream the whole
\* stream.
Chars == {"a", " ", "\n", "E"}

RECURSIVE Encode(_)
Encode(text) ==
    IF text = <<>> THEN <<>>
    ELSE (IF Head(text) = "E" THEN <<"C3", "A9">> ELSE <<Head(text)>>) \o Encode(Tail(text))

RECURSIVE TextsUpTo(_)
TextsUpTo(n) ==
    IF n = 0 THEN {<<>>}
    ELSE TextsUpTo(n - 1)
         \cup {Append(t, c) : t \in {u \in TextsUpTo(n - 1) : Len(u) = n - 1}, c \in Chars}

Streams == {Encode(t) : t \in TextsUpTo(MaxStream)}

IoInit(stream) ==
    [stream |-> stream, rest |-> stream, stdoutBuffer |-> <<>>, dispatched |-> <<>>]

\* data.toString() (line 86): UTF-8 decoding of one chunk by itself; a
\* lead byte without its continuation byte, and a continuation byte
\* without its lead byte, each decode to U+FFFD.
RECURSIVE DataToString(_)
DataToString(b) ==
    IF b = <<>> THEN <<>>
    ELSE IF b[1] = "C3" /\ Len(b) >= 2 /\ b[2] = "A9"
    THEN <<"E">> \o DataToString(SubSeq(b, 3, Len(b)))
    ELSE IF b[1] \in {"C3", "A9"} THEN <<"?">> \o DataToString(Tail(b))
    ELSE <<b[1]>> \o DataToString(Tail(b))

\* text.split('\n') (line 87): the segments between newlines, the last one
\* being what follows the last newline.
RECURSIVE Split(_)
Split(text) ==
    IF \A k \in DOMAIN text : text[k] # "\n" THEN <<text>>
    ELSE LET k == CHOOSE j \in DOMAIN text :
                     text[j] = "\n" /\ \A i \in 1..(j - 1) : text[i] # "\n"
         IN <<SubSeq(text, 1, k - 1)>> \o Split(SubSeq(text, k + 1, Len(text)))

\* line.trim() (line 91).
RECURSIVE Trim(_)
Trim(line) ==
    IF line = <<>> THEN <<>>
    ELSE IF Head(line) = " " THEN Trim(Tail(line))
    ELSE IF line[Len(line)] = " " THEN Trim(SubSeq(line, 1, Len(line) - 1))
    ELSE line

\* The handler on one chunk: the new buffer and the lines dispatched.
OnStdoutData(buffer, chunk) ==
    LET lines == Split(buffer \o DataToString(chunk))
        complete == SubSeq(lines, 1, Len(lines) - 1)
        trimmed == [k \in DOMAIN complete |-> Trim(complete[k])]
    IN [stdoutBuffer |-> lines[Len(lines)],
        dispatched |-> SelectSeq(trimmed, LAMBDA l : l # <<>>)]

\* The next n bytes of the stream arrive as one chunk.
StdoutData(n) ==
    /\ n \in 1..Len(io.rest)
    /\ LET h == OnStdoutData(io.stdoutBuffer, SubSeq(io.rest, 1, n))
       IN io' = [io EXCEPT !.rest = SubSeq(@, n + 1, Len(@)),
                           !.stdoutBuffer = h.stdoutBuffer,
                           !.dispatched = @ \o h.dispatched]
    /\ step' = Step("stdoutData", n, NoMsg, FALSE, <<>>)
    /\ UNCHANGED <<connection, kp, client>>

\* ------------------------------------------------------------------ Init
\* The connection after construction (BaseConnection fields, lines 41-46).
InitConnection ==
    /\ dialect \in {"acp", "mcp"}
    /\ autoApprove \in BOOLEAN
    /\ yoloMode \in BOOLEAN
    /\ dialect = "acp" => yoloMode = FALSE
    /\ state = "disconnected"
    /\ child = NoChild
    /\ alive = {}
    /\ nextId = 0
    /\ pending = <<>>
    /\ timers = <<>>
    /\ outcome = <<>>
    /\ written = <<>>
    /\ pendingAutoApprovals = <<>>
    /\ tools = <<>>
    /\ hostPending = {}
    /\ approvalLog = <<>>
    /\ conn = <<>>
    /\ setModelCalls = <<>>
    /\ micro = <<>>
    /\ step = Step("init", 0, NoMsg, FALSE, <<>>)

\* The state after construction: a connection, a client holding no
\* connection, and running child processes nobody has killed yet.
Init ==
    /\ InitConnection
    /\ kp = KpInit("posix", KillTargets)
    /\ client = ClientInit
    /\ io = IoInit(<<>>)

\* ------------------------------------------------------- specifications
\* What the remote peer may answer: a result or a JSON-RPC error, for every
\* id the connection has issued so far (pending or not).
Answers(results) == {Response(i, r) : i \in 0..(nextId - 1), r \in results}
Errors == {ErrorResponse(i, "-32000") : i \in 0..(nextId - 1)}
ResponsesWith(results) == Answers(results) \cup Errors

\* Spec: the message channel under the session dialect with host approval:
\* connect, application requests, responses, deadlines, process exit and
\* disconnect in every interleaving.
InitBase ==
    /\ Init
    /\ dialect = "acp"
    /\ autoApprove = FALSE

NextBase ==
    \/ Connect
    \/ SendApp("session/prompt")
    \/ \E m \in ResponsesWith({"r1"}) : Deliver(m)
    \/ \E id \in DOMAIN timers : Timeout(id)
    \/ \E p \in alive : Exit(p, <<"null", "SIGTERM">>)
    \/ Disconnect
    \/ RunMicro

Spec == InitBase /\ [][NextBase]_vars

\* SpecCorrelate: concurrent requests answered in any order with either of
\* two results or an error, with deadlines firing in between.
NextCorrelate ==
    \/ Connect
    \/ SendApp("session/prompt")
    \/ \E m \in ResponsesWith({"r1", "r2"}) : Deliver(m)
    \/ \E id \in DOMAIN timers : Timeout(id)
    \/ RunMicro

SpecCorrelate == InitBase /\ [][NextCorrelate]_vars

\* SpecTeardown: process exit and disconnect with requests pending and a
\* permission request surfaced to the host.
NextTeardown ==
    \/ Connect
    \/ SendApp("session/prompt")
    \/ \E m \in Answers({"r1"}) \cup {Permission(7, 2)} : Deliver(m)
    \/ \E id \in DOMAIN timers : Timeout(id)
    \/ \E p \in alive, cs \in ExitCodes : Exit(p, cs)
    \/ Disconnect
    \/ RunMicro

SpecTeardown == InitBase /\ [][NextTeardown]_vars

\* SpecMcp: the tool dialect with host approval.
InitMcp ==
    /\ Init
    /\ dialect = "mcp"
    /\ autoApprove = FALSE
    /\ yoloMode = FALSE

NextMcp ==
    \/ Connect
    \/ \E m \in Answers({"r1", "r2"})
                \cup {Notification("notifications/tools/list_changed")} : Deliver(m)
    \/ \E id \in DOMAIN timers : Timeout(id)
    \/ Disconnect
    \/ RunMicro

SpecMcp == InitMcp /\ [][NextMcp]_vars

\* SpecRace: the tool dialect under automatic approval; the remote sends
\* codex/event notifications and elicitation/create requests in any order.
RemoteIds == {7, 8}
CallIds == {"X", "Y"}

\* Automatic approval is switched on by either option.
InitRace ==
    /\ Init
    /\ dialect = "mcp"
    /\ autoApprove # yoloMode

\* Approval traffic starts once the handshake requests are settled.
RaceInbound ==
    {Elicitation(7, "X"), Elicitation(8, "Y")}
    \cup {CodexEvent("exec_approval_request", c) : c \in CallIds}

NextRace ==
    \/ Connect
    \/ \E m \in Answers({"r1"}) : Deliver(m)
    \/ \E m \in RaceInbound : pending = <<>> /\ micro = <<>> /\ Deliver(m)
    \/ Disconnect
    \/ RunMicro

SpecRace == InitRace /\ [][NextRace]_vars

\* SpecElicit: the tool dialect under every approval configuration; approval
\* events and elicitation requests (with and without a call id) arrive in
\* any order, before and after disconnect().
InitElicit ==
    /\ Init
    /\ dialect = "mcp"

ElicitInbound ==
    {Elicitation(7, "X"), Elicitation(8, ""),
     CodexEvent("exec_approval_request", "X"), CodexEvent("task_started", "X")}

NextElicit ==
    \/ Connect
    \/ \E m \in ElicitInbound : Deliver(m)
    \/ Disconnect
    \/ RunMicro

SpecElicit == InitElicit /\ [][NextElicit]_vars

\* SpecRemote: requests initiated by the remote peer, under both dialects
\* and with automatic approval on or off: permission requests with options,
\* without options and without params, a file request, a sampling request and a request of an
\* unknown method (with a numeric and with a string id), before and after
\* disconnect().
InitRemote ==
    /\ Init
    /\ yoloMode = FALSE

RemoteInbound ==
    {ServerRequest(9, "unknown/method"), ServerRequest(9, "sampling/createMessage"),
     StringIdRequest("unknown/method"),
     ServerRequest(8, "fs/read_text_file"),
     Permission(7, NoParams), Permission(7, 0), Permission(7, 2)}

NextRemote ==
    \/ Connect
    \/ \E m \in RemoteInbound : Deliver(m)
    \/ Disconnect
    \/ RunMicro

SpecRemote == InitRemote /\ [][NextRemote]_vars

\* SpecModel: setModel() calls on a session-dialect connection, the remote
\* answering with results or errors, deadlines, process exit and disconnect.
NextModel ==
    \/ Connect
    \/ SetModel
    \/ \E m \in ResponsesWith({"r1"}) : Deliver(m)
    \/ \E id \in DOMAIN timers : Timeout(id)
    \/ \E p \in alive : Exit(p, <<"null", "SIGTERM">>)
    \/ Disconnect
    \/ RunMicro

SpecModel == InitBase /\ [][NextModel]_vars

\* SpecLines: stdout lines that are valid JSON (responses, a notification)
\* and lines that are not, while requests are pending.
\* The text of a message cut off before its end: not valid JSON.
CutOff(m) == Line(FALSE, [m EXCEPT !.res = "cut"])

Lines ==
    {Line(TRUE, m) : m \in ResponsesWith({"r1"}) \cup {Notification("session/cancelled")}}
    \cup {CutOff(m) : m \in Answers({"r1"}) \cup {Notification("session/cancelled")}}

NextLines ==
    \/ Connect
    \/ SendApp("session/prompt")
    \/ \E l \in Lines : StdoutLine(l)
    \/ \E id \in DOMAIN timers : Timeout(id)
    \/ RunMicro

SpecLines == InitBase /\ [][NextLines]_vars

\* SpecSpawn: the command fails to start, or the process exits, while the
\* handshake and host requests are pending.
NextSpawn ==
    \/ Connect
    \/ SendApp("session/prompt")
    \/ \E m \in ResponsesWith({"r1"}) : Deliver(m)
    \/ \E id \in DOMAIN timers : Timeout(id)
    \/ \E p \in alive : SpawnError(p)
    \/ \E p \in alive : Exit(p, <<"0", "null">>)
    \/ RunMicro

SpecSpawn == InitBase /\ [][NextSpawn]_vars

\* SpecKill: killProcess on two child processes, on either platform
\* family, with and without a pid, with the default and a short force
\* timeout, the processes exiting at any moment or not at all.
InitKill ==
    /\ InitConnection
    /\ dialect = "acp"
    /\ autoApprove = FALSE
    /\ kp \in {KpInit(pf, pids) : pf \in Platforms, pids \in SUBSET KillTargets}
    /\ client = ClientInit
    /\ io = IoInit(<<>>)

NextKill ==
    \/ \E c \in KillTargets, ms \in ForceTimeouts, ok \in BOOLEAN : KillProcess(c, ms, ok)
    \/ \E c \in KillTargets, t \in 1..MaxKillCalls : ForceKillTimer(c, t)
    \/ \E c \in KillTargets : ChildExit(c)

SpecKill == InitKill /\ [][NextKill]_vars

\* SpecClient: connect() and disconnect() calls on one client in every
\* interleaving with the continuations of earlier calls, CLI detection,
\* session establishment and subprocess exits.
NextClient ==
    \/ \E cli \in BOOLEAN : ClientConnect(cli)
    \/ ClientDisconnect
    \/ ClientMicro
    \/ \E k \in DOMAIN client.calls, found \in BOOLEAN : Detected(k, found)
    \/ \E k \in DOMAIN client.calls, ok \in BOOLEAN : SessionSettled(k, ok)
    \/ \E c \in DOMAIN client.conns : ConnectionExit(c)

SpecClient == InitBase /\ [][NextClient]_vars

\* SpecEvict: a session of the tool dialect with automatic approval that
\* never ends: approval events with distinct call ids, the elicitation of
\* one of them, other notifications without end, deadlines.  The event
\* loop handles every line that arrives and fires every timer that is due,
\* so the session always takes a further step.
EvictInbound ==
    {CodexEvent("exec_approval_request", c) : c \in CallIds}
    \cup {Elicitation(7, "X"),
          Notification("notifications/progress"),
          Notification("notifications/message")}

NextEvict ==
    \/ Connect
    \/ \E m \in Answers({"r1"}) : Deliver(m)
    \/ \E m \in EvictInbound : Deliver(m)
    \/ \E id \in DOMAIN timers : Timeout(id)
    \/ RunMicro

SpecEvict == InitRace /\ [][NextEvict]_vars /\ WF_vars(NextEvict)

\* SpecStates: one connection object connected, torn down by exit, spawn
\* error or disconnect(), and connected again.
NextStates ==
    \/ ConnectWithin(MaxRespawn)
    \/ \E m \in Answers({"r1"}) : Deliver(m)
    \/ \E p \in alive : Exit(p, <<"0", "null">>)
    \/ \E p \in alive : SpawnError(p)
    \/ Disconnect
    \/ RunMicro

SpecStates == InitBase /\ [][NextStates]_vars

\* SpecSettle: the message channel of Spec in which a timer that is armed
\* eventually fires and a queued continuation eventually runs (the event
\* loop's timer and microtask phases).
\* The host calls connect() and sends while ids remain for the requests
\* every connect() in progress has yet to issue, so no continuation waits
\* on the id cap.
HandshakeIds == Cardinality({k \in DOMAIN conn : conn[k] = "init"})

NextSettle ==
    \/ nextId + HandshakeIds + 1 < MaxId /\ Connect
    \/ nextId + HandshakeIds < MaxId /\ SendApp("session/prompt")
    \/ \E m \in ResponsesWith({"r1"}) : Deliver(m)
    \/ \E id \in DOMAIN timers : Timeout(id)
    \/ \E p \in alive : Exit(p, <<"null", "SIGTERM">>)
    \/ Disconnect
    \/ RunMicro

SpecSettle ==
    /\ InitBase
    /\ [][NextSettle]_vars
    /\ WF_vars(\E id \in DOMAIN timers : Timeout(id))
    /\ WF_vars(RunMicro)

\* SpecDeadline: requests sent with and without a timeout argument, next
\* to the handshake requests, their responses and deadlines.
CallerTimeouts == {NoTimeout, 5000}

NextDeadline ==
    \/ Connect
    \/ \E t \in CallerTimeouts : SendTimed("session/prompt", t)
    \/ \E m \in Answers({"r1"}) : Deliver(m)
    \/ \E id \in DOMAIN timers : Timeout(id)
    \/ Disconnect
    \/ RunMicro

SpecDeadline == InitBase /\ [][NextDeadline]_vars

\* SpecRoute: every shape of decoded inbound message - responses for
\* issued ids (pending or not), requests of the remote peer whose id is
\* fresh, equals a pending id or is a string, notifications, a string-id
\* response and a message with neither id nor method - while requests are
\* pending.
RouteInbound ==
    Answers({"r1"})
    \cup {ServerRequest(i, "fs/read_text_file") : i \in DOMAIN pending \cup {9}}
    \cup {StringIdRequest("fs/read_text_file"),
          Notification("server/notify"),
          Msg("str", 0, "", "r1", "", "", "", 0),
          NoMsg}

NextRoute ==
    \/ Connect
    \/ SendApp("session/prompt")
    \/ \E m \in RouteInbound : Deliver(m)
    \/ \E id \in DOMAIN timers : Timeout(id)
    \/ RunMicro

SpecRoute == InitBase /\ [][NextRoute]_vars

\* SpecChunks: every text of up to MaxStream characters written to stdout,
\* its bytes arriving in chunks cut at every possible place.
InitChunks ==
    /\ InitConnection
    /\ dialect = "acp"
    /\ autoApprove = FALSE
    /\ kp = KpInit("posix", KillTargets)
    /\ client = ClientInit
    /\ io \in {IoInit(b) : b \in Streams}

NextChunks == \E n \in 1..(2 * MaxStream) : StdoutData(n)

SpecChunks == InitChunks /\ [][NextChunks]_vars

\* SpecStderr: stderr lines that read like protocol messages - responses
\* to issued requests, a request of the remote peer, a notification - and
\* one that is no JSON, next to the stdout responses, host requests and
\* deadlines.  The text of a stderr line is marked by the result "stderr".
StderrLines ==
    {Line(TRUE, Response(i, "stderr")) : i \in 0..(nextId - 1)}
    \cup {Line(TRUE, [ServerRequest(9, "fs/read_text_file") EXCEPT !.res = "stderr"]),
          Line(TRUE, [Notification("server/notify") EXCEPT !.res = "stderr"]),
          Line(FALSE, [NoMsg EXCEPT !.res = "stderr"])}

NextStderr ==
    \/ Connect
    \/ SendApp("session/prompt")
    \/ \E m \in Answers({"r1"}) : Deliver(m)
    \/ \E l \in StderrLines : StderrLine(l)
    \/ \E id \in DOMAIN timers : Timeout(id)
    \/ RunMicro

SpecStderr == InitBase /\ [][NextStderr]_vars

\* SpecUpdates: session/update notifications of every sub-variant the
\* handler names, one it does not name and one without an update, with a
\* text (or plan) and without, for two sessions, next to the handshake
\* and a host request with its response.
SessionUpdates ==
    {Msg("none", 0, "session/update", x, "", sid, t, 0) :
        x \in {"", "text"}, sid \in {"s1", "s2"},
        t \in {"agent_message_chunk", "agent_thought_chunk", "tool_call",
               "tool_call_update", "plan", "config_option_update", ""}}

NextUpdates ==
    \/ Connect
    \/ SendApp("session/prompt")
    \/ \E m \in Answers({"r1"}) \cup SessionUpdates : Deliver(m)
    \/ RunMicro

SpecUpdates == InitBase /\ [][NextUpdates]_vars

\* SpecHost: the tool dialect with automatic approval off; the approval
\* event and the elicitation request of a call arrive in any order, any
\* number of times, once the handshake requests are settled, and the
\* host invokes the decision callbacks it was handed, any number of
\* times, before and after disconnect().
NextHost ==
    \/ Connect
    \/ \E m \in Answers({"r1"}) : Deliver(m)
    \/ \E m \in {Elicitation(7, "X"), CodexEvent("exec_approval_request", "X")} :
          pending = <<>> /\ micro = <<>> /\ Deliver(m)
    \/ \E id \in hostPending, d \in Decisions : HostDecide(id, d)
    \/ Disconnect
    \/ RunMicro

SpecHost == InitMcp /\ [][NextHost]_vars

\* SpecReuse: one connection object of the tool dialect under automatic
\* approval that is connected, disconnected and connected again, while
\* stdout bytes arrive in chunks and approval traffic is handled.
NextReuse ==
    \/ ConnectWithin(MaxRespawn)
    \/ \E n \in 1..MaxStream : Len(conn) > 0 /\ StdoutData(n)
    \/ \E m \in {CodexEvent("exec_approval_request", "X"), Elicitation(7, "X")} : Deliver(m)
    \/ Disconnect
    \/ RunMicro

InitReuse ==
    /\ InitConnection
    /\ dialect = "mcp" /\ autoApprove = TRUE /\ yoloMode = FALSE
    /\ kp = KpInit("posix", KillTargets)
    /\ client = ClientInit
    /\ io \in {IoInit(b) : b \in Streams}

SpecReuse == InitReuse /\ [][NextReuse]_vars

\* ----------------------------------------------------------------- claims
Requests == SelectSeq(written, LAMBDA w : w.kind = "request")
DeliverOps == {"response", "serverRequest", "notification", "dropped"}

\* C1: a response settles exactly the pending request whose id it carries,
\* with its own result or error, and settles no other request - whatever
\* the order in which the responses of concurrently pending requests arrive.
C1_ResponseSettlesItsOwnRequest ==
    [][step'.op = "response" =>
         LET m == step'.m
         IN /\ m.id \in DOMAIN pending
            /\ pending' = Without(pending, {m.id})
            /\ outcome[m.id].k = "none"
            /\ outcome'[m.id].n = 1
            /\ IF m.err = ""
               THEN outcome'[m.id].k = "ok" /\ outcome'[m.id].v = m.res
               ELSE /\ outcome'[m.id].k = "err"
                    /\ outcome'[m.id].e = "rpc"
                    /\ outcome'[m.id].v = m.err
            /\ \A j \in DOMAIN outcome \ {m.id} : outcome'[j] = outcome[j]
            /\ DOMAIN outcome' = DOMAIN outcome]_vars

\* Three requests were pending together and were answered in the reverse of
\* the send order, each with a different answer.
C1_Witness ==
    /\ nextId = 3
    /\ step.op = "response" /\ step.m.id = 0
    /\ outcome[0].k = "ok" /\ outcome[0].v = "r1"
    /\ outcome[1].k = "ok" /\ outcome[1].v = "r2"
    /\ outcome[2].k = "err" /\ outcome[2].e = "rpc"

\* C5: once the deadline of a request has fired, a response carrying that
\* id settles nothing: the caller's promise is not touched again, no other
\* pending request changes, no handler runs, nothing is thrown.
C5_LateResponseIgnored ==
    [][(/\ step'.op \in DeliverOps
        /\ step'.m.idk = "num"
        /\ step'.m.method = ""
        /\ step'.m.id \in DOMAIN outcome
        /\ outcome[step'.m.id].e = "timeout")
       => /\ step'.op = "dropped"
          /\ ~step'.thrown
          /\ step'.ev = <<>>
          /\ UNCHANGED <<pending, timers, outcome, written, micro, state, child,
                         hostPending, pendingAutoApprovals, tools, conn>>]_vars

C5_Witness ==
    /\ step.op = "dropped"
    /\ step.m.idk = "num" /\ step.m.method = ""
    /\ step.m.id \in DOMAIN outcome
    /\ outcome[step.m.id].e = "timeout"
    /\ outcome[step.m.id].n = 1
    /\ pending # <<>>

\* C6: the ids of the requests written by one connection are 0, 1, 2, ...
\* in the order written, so an id is never issued twice and never equals
\* the id of a request that is still pending when it is issued.
C6_IdsStrictlyIncrease ==
    /\ \A k \in 1..Len(Requests) : Requests[k].id = k - 1
    /\ nextId = Len(Requests)
    /\ DOMAIN pending \subseteq 0..(nextId - 1)

C6_Witness ==
    /\ nextId = 3
    /\ state = "disconnected"
    /\ \E i \in DOMAIN outcome : outcome[i].e = "timeout"
    /\ \E i \in DOMAIN outcome : outcome[i].e = "closed"

\* C7 (as claimed): an application-level request is accepted - an id
\* allocated and the request written - only in state 'ready'.
C7_AcceptedOnlyWhenReady ==
    [][(step'.op = "sendRequest" /\ ~step'.thrown) => state = "ready"]_vars

\* The first line written to every subprocess is an initialize request.
FirstLineIsInitialize ==
    \A k \in 1..Len(written) :
        (\A j \in 1..(k - 1) : written[j].to # written[k].to)
           => written[k].kind = "request" /\ written[k].method = "initialize"

\* The step taken resumes a connect() call from the successful response to
\* a request of the given method.
ResumesFromSuccess(method) ==
    /\ step'.op = "resume"
    /\ step'.id \in DOMAIN outcome
    /\ outcome[step'.id].k = "ok"
    /\ Requests[step'.id + 1].id = step'.id
    /\ Requests[step'.id + 1].method = method

NewLines == {k \in 1..Len(written') : k > Len(written)}

\* C8: in the session dialect the first line written to a subprocess is the
\* initialize request; session/new is written only by the step that resumes
\* connect() from a successful initialize response, and 'ready' is entered
\* only by the step that resumes connect() from a successful session/new
\* response.
C8_SessionHandshakeInOrder ==
    [][/\ FirstLineIsInitialize'
       /\ \A k \in NewLines :
             (written'[k].kind = "request" /\ written'[k].method = "session/new")
                => ResumesFromSuccess("initialize")
       /\ (state' = "ready" /\ state # "ready")
             => ResumesFromSuccess("session/new")]_vars

C8_Witness ==
    /\ state = "ready"
    /\ Len(Requests) >= 2
    /\ Requests[1].method = "initialize" /\ Requests[2].method = "session/new"
    /\ outcome[0].k = "ok" /\ outcome[1].k = "ok"

\* C9 (as claimed): when connect() fails because initialize or session/new
\* was answered with an RPC error or ran into its deadline, the connection
\* state is 'error' afterwards.
C9_FailedHandshakeLeavesError ==
    [][(/\ step'.op = "resume"
        /\ step'.id \in DOMAIN outcome
        /\ outcome[step'.id].e \in {"rpc", "timeout"}
        /\ \E c \in DOMAIN conn : conn[c] # "failed" /\ conn'[c] = "failed")
       => state' = "error"]_vars

\* C2: under automatic approval, whenever the approval event of a call and
\* the elicitation request of that call have both been handled by a
\* connected connection - in either order - the responses written to the
\* elicitation's RPC id are exactly one, carrying 'approved'.
ElicitationsOf(c, i) ==
    SelectSeq(LogOf(c), LAMBDA l : l.kind = "elicitation" /\ l.id = i)
ApprovalEventsOf(c) ==
    SelectSeq(LogOf(c), LAMBDA l : l.kind = "event" /\ l.typ = "exec_approval_request")
RepliesTo(i) ==
    SelectSeq(written, LAMBDA w : w.kind \in {"response", "error"} /\ w.id = i)

C3_DisconnectRejectsPendingAnswersNothing ==
    [][step'.op = "disconnect" =>
         /\ pending' = <<>>
         /\ \A i \in DOMAIN pending :
               /\ outcome[i].k = "none"
               /\ outcome'[i].k = "err" /\ outcome'[i].e = "closed"
               /\ outcome'[i].n = 1
         /\ \A j \in DOMAIN outcome \ DOMAIN pending : outcome'[j] = outcome[j]
         /\ written' = written
         /\ hostPending' = hostPending
         /\ state' = "disconnected"
         /\ child' = NoChild]_vars

\* disconnect() was called with two requests pending and permission request
\* 7 with the host.
C3_Witness ==
    /\ step.op = "disconnect"
    /\ hostPending = {7}
    /\ Cardinality({i \in DOMAIN outcome : outcome[i].e = "closed"}) = 2
    /\ RepliesTo(7) = <<>>
    /\ state = "disconnected"

\* C4: the exit of the subprocess, in one step, removes every pending
\* request, rejects each once with the 'process terminated' error carrying
\* the exit code and signal of the event, leaves none of their timers armed
\* and sets the state to 'closed'.
C4_ExitRejectsAllPending ==
    [][step'.op = "exit" =>
         LET ev == step'.ev[Len(step'.ev)]
         IN /\ ev.n = "exit"
            /\ state' = "closed"
            /\ pending' = <<>>
            /\ \A i \in DOMAIN pending :
                  /\ outcome[i].k = "none"
                  /\ outcome'[i].k = "err" /\ outcome'[i].e = "exit"
                  /\ outcome'[i].v = ev.a /\ outcome'[i].w = ev.b
                  /\ outcome'[i].n = 1
                  /\ i \notin DOMAIN timers'
            /\ \A j \in DOMAIN outcome \ DOMAIN pending : outcome'[j] = outcome[j]]_vars

\* The subprocess was killed by SIGTERM with two requests pending.
C4_Witness ==
    /\ step.op = "exit"
    /\ state = "closed"
    /\ Cardinality({i \in DOMAIN outcome :
                       /\ outcome[i].e = "exit"
                       /\ outcome[i].v = "null"
                       /\ outcome[i].w = "SIGTERM"}) = 2
    /\ timers = <<>>

\* C10: in the tool dialect the first line written to a subprocess is the
\* initialize request; notifications/initialized is written only by the
\* step that resumes connect() from a successful initialize response, and
\* the same step writes the tools/list request right after it; 'ready' is
\* entered only by the step that resumes connect() from the successful
\* response to that tools/list request, and that step stores the catalog of
\* the response.
C10_ToolHandshakeInOrder ==
    [][/\ FirstLineIsInitialize'
       /\ \A k \in NewLines :
             written'[k].kind = "notification"
                => /\ written'[k].method = "notifications/initialized"
                   /\ ResumesFromSuccess("initialize")
                   /\ k < Len(written')
                   /\ written'[k + 1].kind = "request"
                   /\ written'[k + 1].method = "tools/list"
                   /\ written'[k + 1].to = written'[k].to
       /\ (state' = "ready" /\ state # "ready")
             => /\ ResumesFromSuccess("tools/list")
                /\ tools' = ToolsIn(outcome[step'.id].v)
                /\ \E k \in 2..Len(written) :
                      /\ written[k].kind = "request"
                      /\ written[k].id = step'.id
                      /\ written[k - 1].kind = "notification"]_vars

C10_Witness ==
    /\ state = "ready"
    /\ step.op = "resume"
    /\ tools = <<"t1", "t2">>
    /\ Len(written) = 3
    /\ written[1].method = "initialize"
    /\ written[2].method = "notifications/initialized"
    /\ written[3].method = "tools/list"
    /\ outcome[0].k = "ok" /\ outcome[1].k = "ok"

\* The step taken wrote exactly one line, the response v to remote request
\* i; with attachedOnly, a connection that holds no subprocess instead
\* writes nothing, the attempt throwing inside the line handler.
Sends(i, v, attachedOnly) ==
    IF attachedOnly /\ child = NoChild
    THEN written' = written /\ step'.thrown
    ELSE /\ written' = Append(written, Out(child, "response", i, "", v))
         /\ ~step'.thrown

ElicitationDecidedInOrder(attachedOnly) ==
    (step'.op = "serverRequest" /\ step'.m.method = "elicitation/create")
    => LET m == step'.m
           asked == \E k \in 1..Len(step'.ev) : step'.ev[k].n = "approvalRequest"
       IN IF m.call # "" /\ m.call \in DOMAIN pendingAutoApprovals
          THEN /\ Sends(m.id, pendingAutoApprovals[m.call], attachedOnly)
               /\ pendingAutoApprovals' = Without(pendingAutoApprovals, {m.call})
               /\ ~asked /\ hostPending' = hostPending
          ELSE IF autoApprove \/ yoloMode
          THEN /\ Sends(m.id, "approved", attachedOnly)
               /\ pendingAutoApprovals' = pendingAutoApprovals
               /\ ~asked /\ hostPending' = hostPending
          ELSE /\ written' = written /\ ~step'.thrown
               /\ pendingAutoApprovals' = pendingAutoApprovals
               /\ step'.ev = <<Ev("approvalRequest", m.call, m.id)>>
               /\ hostPending' = hostPending \cup {m.id}

HandledMethods ==
    IF dialect = "acp"
    THEN {"session/request_permission", "fs/read_text_file", "fs/write_text_file"}
    ELSE {"elicitation/create"}

\* A message that carries a method and an id matching no pending request.
IsRemoteRequest(m) ==
    /\ m.idk # "none"
    /\ m.method # ""
    /\ ~(m.idk = "num" /\ m.id \in DOMAIN pending)

\* C12 (as claimed): every remote request of a method the adapter does not
\* handle is answered with exactly one error response carrying its id and
\* code -32601, under both dialects; none is left unanswered.
C12_UnknownMethodAlwaysAnswered ==
    [][(/\ step'.op \in DeliverOps
        /\ IsRemoteRequest(step'.m)
        /\ step'.m.method \notin HandledMethods)
       => /\ written' = Append(written, Out(child, "error", step'.m.id, "", "-32601"))
          /\ ~step'.thrown
          /\ hostPending' = hostPending]_vars

\* In the session dialect a request of an unknown method got its -32601.
C12_Witness ==
    /\ dialect = "acp"
    /\ step.op = "serverRequest" /\ step.m.method = "unknown/method"
    /\ child # NoChild
    /\ written[Len(written)] = Out(child, "error", 9, "", "-32601")
    /\ hostPending = {}

\* The requests the step taken settled.
SettledByStep == {i \in DOMAIN outcome : outcome[i].k = "none" /\ outcome'[i].k # "none"}

\* C13: a deadline firing, or an RPC error response, removes and rejects
\* only its own request: every other pending entry, timer and promise is
\* untouched and the state and child are unchanged; a step that settles
\* more than one request is a process exit, a spawn error or a disconnect.
C13_LocalFailureIsLocal ==
    [][/\ (step'.op = "timeout" \/ (step'.op = "response" /\ step'.m.err # ""))
             => LET id == step'.id
                IN /\ id \in DOMAIN pending
                   /\ pending' = Without(pending, {id})
                   /\ timers' = Without(timers, {id})
                   /\ outcome'[id].k = "err"
                   /\ outcome'[id].e = IF step'.op = "timeout" THEN "timeout" ELSE "rpc"
                   /\ \A j \in DOMAIN outcome \ {id} : outcome'[j] = outcome[j]
                   /\ state' = state /\ child' = child
       /\ Cardinality(SettledByStep) > 1
             => step'.op \in {"exit", "spawnError", "disconnect"}]_vars

\* A deadline fired while another request stayed pending with its timer,
\* after a third request had been rejected by an RPC error.
C13_Witness ==
    /\ step.op = "timeout"
    /\ pending # <<>>
    /\ DOMAIN timers = DOMAIN pending
    /\ \E j \in DOMAIN outcome : outcome[j].e = "rpc"
    /\ \A j \in DOMAIN pending : outcome[j].k = "none"

\* C14 (as claimed): setModel() writes the session/set_config_option
\* fallback only in the step that resumes it from an RPC error response to
\* its session/set_model request - not after a deadline, a process exit or
\* a disconnect - and at most once per call.
C14_FallbackOnlyAfterRpcError ==
    [][\A k \in NewLines :
          written'[k].method = "session/set_config_option"
             => /\ step'.op = "setModelResume"
                /\ step'.id \in DOMAIN outcome
                /\ Requests[step'.id + 1].method = "session/set_model"
                /\ outcome[step'.id].e = "rpc"
                /\ Cardinality({j \in NewLines :
                                   written'[j].method = "session/set_config_option"}) = 1]_vars

\* C15 (as claimed): every session/request_permission request is answered
\* at once with the first offered option, and no permissionRequest event is
\* emitted, when autoApprove is on and an option is offered; otherwise
\* nothing is written and a permissionRequest event is surfaced.
C15_PermissionPolicyAlways ==
    [][(/\ dialect = "acp"
        /\ step'.op = "serverRequest"
        /\ step'.m.method = "session/request_permission")
       => LET m == step'.m
              asked == \E k \in 1..Len(step'.ev) : step'.ev[k].n = "permissionRequest"
          IN IF autoApprove /\ m.opts > 0
             THEN /\ Sends(m.id, "option1", FALSE)
                  /\ ~asked /\ hostPending' = hostPending
             ELSE /\ written' = written /\ ~step'.thrown
                  /\ step'.ev = <<Ev("permissionRequest", "", m.id)>>
                  /\ hostPending' = hostPending \cup {m.id}]_vars

\* With autoApprove a request offering two options was answered with the
\* first one and the host was not asked.
C15_Witness ==
    /\ dialect = "acp" /\ autoApprove
    /\ step.op = "serverRequest" /\ step.m.method = "session/request_permission"
    /\ step.m.opts = 2
    /\ step.ev = <<>>
    /\ child # NoChild
    /\ written[Len(written)] = Out(child, "response", 7, "", "option1")
    /\ hostPending = {}

C17_SpawnErrorRejectsAllPending ==
    [][step'.op = "spawnError" =>
         LET ev == step'.ev[Len(step'.ev)]
         IN /\ ev.n = "error"
            /\ state' = "error"
            /\ pending' = <<>>
            /\ \A i \in DOMAIN pending :
                  /\ outcome[i].k = "none"
                  /\ outcome'[i].k = "err" /\ outcome'[i].e = "spawn"
                  /\ outcome'[i].v = ev.a
                  /\ outcome'[i].n = 1
                  /\ i \notin DOMAIN timers'
            /\ \A j \in DOMAIN outcome \ DOMAIN pending : outcome'[j] = outcome[j]]_vars

\* The command failed to start with the handshake and a host request
\* pending: both were rejected with the spawn error.
C17_Witness ==
    /\ step.op = "spawnError"
    /\ state = "error"
    /\ Cardinality({i \in DOMAIN outcome :
                       outcome[i].e = "spawn" /\ outcome[i].v = "ENOENT"}) = 2
    /\ timers = <<>>
    /\ pending = <<>>

\* C18 (as claimed): on a POSIX platform killProcess on a running child
\* delivers SIGTERM and arms a force-kill timer with the given timeout;
\* when a force-kill timer fires and the process has not exited, SIGKILL
\* is delivered; when the process exits, no force-kill timer stays armed
\* and no SIGKILL is delivered afterwards.
C18_TermThenKillUnlessExited ==
    [][kp.platform = "posix" =>
        \A c \in KillTargets :
           LET p == kp.of[c]
               q == kp'.of[c]
           IN /\ (step'.op = "killProcess" /\ step'.id = c
                      /\ p.pid /\ p.handle /\ ~p.killed)
                  => /\ q.sent = Append(p.sent, "SIGTERM")
                     /\ DOMAIN q.armed = DOMAIN p.armed \cup {q.calls}
              /\ (step'.op = "forceKillTimer" /\ step'.id = c /\ p.handle)
                  => q.sent = Append(p.sent, "SIGKILL")
              /\ (step'.op = "childExit" /\ step'.id = c) => q.armed = <<>>
              /\ ~p.handle => q.sent = p.sent]_vars

\* A force-kill timer fired on a process that had been sent SIGTERM and
\* had not exited, and no SIGKILL was delivered.
C18_Witness ==
    /\ kp.platform = "posix"
    /\ step.op = "forceKillTimer"
    /\ kp.of[step.id].handle
    /\ kp.of[step.id].sent = <<"SIGTERM">>
    /\ kp.of[step.id].armed = <<>>

\* C19 (as claimed): every entry of the pending-approval table is
\* eventually removed, whether or not its elicitation request arrives, so
\* the table does not keep an entry per call id ever announced.
C19_UnclaimedEntryEvicted ==
    \A c \in CallIds :
        (c \in DOMAIN pendingAutoApprovals) ~> (c \notin DOMAIN pendingAutoApprovals)

\* The table holds an entry for every call id announced so far, none of
\* them claimed, after the request deadline of the handshake has passed.
C19_Witness ==
    /\ DOMAIN pendingAutoApprovals = CallIds
    /\ \A c \in CallIds : Len(LogOf(c)) = MaxApprovalLog
    /\ \E i \in DOMAIN outcome : outcome[i].e = "timeout"
    /\ step.op = "notification"
    /\ step.m.method = "notifications/progress"

\* C20 (as claimed): at most one connection created by the client has a
\* running subprocess that was not asked to terminate, and every
\* connection the client created is the one it holds or was disconnected.
C20_AtMostOneLiveConnection ==
    /\ Cardinality({c \in DOMAIN client.conns :
                       client.conns[c].alive /\ ~client.conns[c].asked}) <= 1
    /\ \A c \in DOMAIN client.conns : c = client.acp \/ client.conns[c].asked

\* Two connections of the client run at once, neither asked to terminate.
C20_Witness ==
    Cardinality({c \in DOMAIN client.conns :
                    client.conns[c].alive /\ ~client.conns[c].asked}) = 2

\* The states the connection passes through in a step: the state before it
\* followed by the value of every stateChange event the step emitted.
StatesThrough ==
    <<state>> \o [k \in 1..Len(SelectSeq(step'.ev, LAMBDA e : e.n = "stateChange")) |->
                    SelectSeq(step'.ev, LAMBDA e : e.n = "stateChange")[k].a]

Rank(st) ==
    CASE st = "disconnected" -> 0
      [] st = "connecting" -> 1
      [] st = "connected" -> 2
      [] st = "initializing" -> 3
      [] st = "ready" -> 4
      [] st = "closed" -> 5
      [] OTHER -> 6

\* C21 (as claimed): every change of the connection state moves forward
\* along disconnected, connecting, connected, initializing, ready, closed,
\* or enters 'error', or enters 'disconnected' in a disconnect() step.
C21_TransitionsOneDirectional ==
    [][\A k \in 1..(Len(StatesThrough) - 1) :
          LET from == StatesThrough[k]
              to == StatesThrough[k + 1]
          IN \/ from # "error" /\ to # "error" /\ Rank(from) < Rank(to)
             \/ to = "error"
             \/ to = "disconnected" /\ step'.op = "disconnect"]_vars

\* connect() was called on a connection whose subprocess had exited (state
\* 'closed') and took it to 'initializing' with a second subprocess.
C21_Witness ==
    /\ step.op = "connect"
    /\ Len(conn) = 2
    /\ state = "initializing"
    /\ \E i \in DOMAIN outcome : outcome[i].e = "exit"
    /\ \A i \in DOMAIN outcome : outcome[i].e # "closed"

\* C22: a request is pending exactly while its caller's promise is
\* unsettled, no promise is resolved or rejected more than once, and every
\* pending request is eventually settled (armed timers eventually fire).
C22_EveryRequestSettledOnce ==
    /\ [](\A i \in DOMAIN outcome :
             /\ outcome[i].n <= 1
             /\ i \in DOMAIN pending <=> outcome[i].k = "none"
             /\ i \in DOMAIN pending => i \in DOMAIN timers)
    /\ \A i \in 0..MaxId :
          (i \in DOMAIN pending) ~> (i \in DOMAIN outcome /\ outcome[i].k # "none")

\* Three requests were settled in three ways, each once: by its response,
\* by its deadline and by disconnect(); a response that arrived after the
\* deadline was dropped.
C22_Witness ==
    /\ \E i \in DOMAIN outcome : outcome[i].k = "ok" /\ outcome[i].n = 1
    /\ \E i \in DOMAIN outcome : outcome[i].e = "timeout" /\ outcome[i].n = 1
    /\ \E i \in DOMAIN outcome : outcome[i].e = "closed" /\ outcome[i].n = 1
    /\ pending = <<>>
    /\ step.op = "dropped"

\* C23 (as claimed): a timer armed for initialize or session/new runs for
\* 60 s; a timer armed for a request the caller gave a timeout runs for
\* that timeout; every other timer runs for 600 s.
C23_DefaultDeadlines ==
    [][\A id \in DOMAIN timers' \ DOMAIN timers :
          timers'[id].ms =
             IF timers'[id].method \in {"initialize", "session/new"} THEN 60000
             ELSE IF step'.m.idk = "call" /\ step'.m.opts # NoTimeout THEN step'.m.opts
             ELSE 600000]_vars

\* A request sent without a timeout argument is pending with its timer
\* next to one sent with a timeout of 5 s and the initialize request.
C23_Witness ==
    /\ \E k \in DOMAIN timers : timers[k].ms = DefaultInitTimeout
    /\ \E i, j \in DOMAIN timers :
          /\ timers[i].method = "session/prompt" /\ timers[i].ms = DefaultRequestTimeout
          /\ timers[j].method = "session/prompt" /\ timers[j].ms = 5000

\* The rule of the claim that a decoded message falls under.
RuleOf(m) ==
    IF m.idk = "num" /\ m.id \in DOMAIN pending THEN 1
    ELSE IF m.idk = "num" /\ m.method # "" THEN 2
    ELSE IF m.idk = "none" /\ m.method # "" THEN 3
    ELSE 0

\* C24: a message with a numeric id of a pending request settles that
\* request and does nothing else; otherwise a message with a numeric id and
\* a method runs the remote-request handler once; otherwise a message with a
\* method and no id runs the notification handler once; any other message
\* runs no handler and settles nothing.
C24_FirstMatchingRule ==
    [][step'.op \in DeliverOps =>
        LET m == step'.m
            rule == RuleOf(m)
        IN /\ rule = 1 =>
                 /\ step'.op = "response" /\ step'.id = m.id
                 /\ pending' = Without(pending, {m.id})
                 /\ outcome'[m.id].k # "none" /\ outcome'[m.id].n = 1
                 /\ \A j \in DOMAIN outcome \ {m.id} : outcome'[j] = outcome[j]
                 /\ step'.ev = <<>>
                 /\ UNCHANGED <<hostPending, written>>
           /\ rule = 2 =>
                 /\ step'.op = "serverRequest"
                 /\ step'.ev = <<Ev("fileRead", "", m.id)>>
                 /\ hostPending' = hostPending \cup {m.id}
                 /\ UNCHANGED <<pending, timers, outcome, written>>
           /\ rule = 3 =>
                 /\ step'.op = "notification"
                 /\ step'.ev = <<Ev("notification", m.method, 0)>>
                 /\ UNCHANGED <<pending, timers, outcome, written, hostPending>>
           /\ rule = 0 =>
                 /\ step'.op = "dropped"
                 /\ step'.ev = <<>>
                 /\ UNCHANGED <<pending, timers, outcome, written, hostPending>>]_vars

\* A message carrying a method and the id of a pending request settled
\* that request, with another request still pending and no handler run.
C24_Witness ==
    /\ step.op = "response"
    /\ step.m.method = "fs/read_text_file"
    /\ outcome[step.m.id].k = "ok"
    /\ pending # <<>>
    /\ hostPending = {}

\* C30 (as claimed): a message that carries a method and a numeric id is
\* handed to the remote-request handler and settles no pending request,
\* also when its id is the id of a pending request.
C30_RemoteRequestNeverSettles ==
    [][(/\ step'.op \in DeliverOps
        /\ step'.m.idk = "num"
        /\ step'.m.method # "")
       => /\ step'.op = "serverRequest"
          /\ UNCHANGED <<pending, timers, outcome>>]_vars

\* The remote peer's fs/read_text_file request with id 1 arrived while the
\* connection's own request 1 was pending: the caller of request 1 was
\* resolved and the host was never asked.
C30_Witness ==
    /\ step.op = "response"
    /\ step.m.method = "fs/read_text_file"
    /\ step.m.id = 1
    /\ outcome[1].k = "ok" /\ outcome[1].v = ""
    /\ hostPending = {}

\* The bytes of the stream that have arrived.
Arrived == SubSeq(io.stream, 1, Len(io.stream) - Len(io.rest))

\* C25 (as claimed): however the stream is cut into chunks, the lines
\* dispatched so far and the fragment kept are those the handler produces
\* when the bytes arrived so far come in one chunk: the complete non-blank
\* lines in stream order, none twice, none dropped, none altered.
C25_ChunkingInvisible ==
    LET once == OnStdoutData(<<>>, Arrived)
    IN /\ io.dispatched = once.dispatched
       /\ io.stdoutBuffer = once.stdoutBuffer

\* The line "E" arrived in two chunks cut inside the character and was
\* dispatched as two replacement characters.
C25_Witness ==
    /\ io.stream = <<"C3", "A9", "\n">>
    /\ io.rest = <<>>
    /\ io.dispatched = <<(<<"?", "?">>)>>

\* What C26 says of the steps after a tools/list_changed notification: the
\* step that handles the notification changes no catalog and throws
\* nothing; the step that resumes from the re-fetch's response replaces the
\* catalog by the response's tool list and emits toolsChanged, and from
\* its failure leaves the catalog and emits 'error'; no other step but
\* connect()'s own tools/list changes the catalog.  always: the
\* notification writes one tools/list request; otherwise only while the
\* connection holds a subprocess.
RefetchOnListChanged(always) ==
    /\ (step'.op = "notification"
           /\ step'.m.method = "notifications/tools/list_changed")
        => /\ tools' = tools
           /\ ~step'.thrown
           /\ step'.ev = <<>>
           /\ IF always \/ child # NoChild
              THEN /\ written' = Append(written, Out(child, "request", nextId, "tools/list", ""))
                   /\ nextId \in DOMAIN pending' \ DOMAIN pending
                   /\ Len(micro') = Len(micro)
              ELSE /\ written' = written
                   /\ pending' = pending
                   /\ micro' = Append(micro, Cont("refetch", 0, 0, NotConnectedError))
    /\ step'.op = "refetched"
        => LET c == Head(micro)
           IN IF c.ok
              THEN /\ tools' = ToolsIn(c.val)
                   /\ step'.ev = <<Ev("toolsChanged", "", 0)>>
              ELSE /\ tools' = tools
                   /\ step'.ev = <<Ev("error", "", 0)>>
                   /\ ~step'.thrown
    /\ tools' # tools => step'.op \in {"refetched", "resume"}

C27_StderrOnlyLogged ==
    [][step'.m.res = "stderr"
       => /\ step'.op = "stderr"
          /\ step'.ev = <<Ev("log", "stderr", 0)>>
          /\ UNCHANGED <<pending, timers, outcome, written, micro, state, child,
                         hostPending, pendingAutoApprovals, tools, conn, nextId>>]_vars

\* A stderr line that reads as the response to a pending request was
\* logged and the request is still pending with its timer.
C27_Witness ==
    /\ step.op = "stderr"
    /\ step.m.idk = "num" /\ step.m.method = ""
    /\ step.m.id \in DOMAIN pending
    /\ step.m.id \in DOMAIN timers
    /\ outcome[step.m.id].k = "none"
    /\ step.ev = <<Ev("log", "stderr", 0)>>

\* C28: a session/update notification of sub-variant message chunk,
\* thought chunk, tool call, tool-call update or plan emits exactly one
\* typed event, of the matching kind and with the notification's session
\* id; any other sub-variant emits no typed event and raises no error.
C28_OneTypedEventPerUpdate ==
    [][step'.op = "notification" /\ step'.m.method = "session/update"
       => LET m == step'.m
              typed == {k \in DOMAIN step'.ev : step'.ev[k].n # "sessionUpdate"}
              kind == CASE m.typ = "agent_message_chunk" -> "messageChunk"
                        [] m.typ = "agent_thought_chunk" -> "thoughtChunk"
                        [] m.typ = "tool_call" -> "toolCall"
                        [] m.typ = "tool_call_update" -> "toolCallUpdate"
                        [] m.typ = "plan" -> "plan"
                        [] OTHER -> ""
          IN  /\ ~step'.thrown
              /\ IF kind = "" THEN typed = {}
                 ELSE /\ Cardinality(typed) = 1
                      /\ \A k \in typed : /\ step'.ev[k].n = kind
                                          /\ step'.ev[k].b = m.call]_vars

\* A message-chunk update with an empty text was handled: the untyped
\* sessionUpdate event is all that was emitted.
C28_Witness ==
    /\ step.op = "notification"
    /\ step.m.method = "session/update"
    /\ step.m.typ = "agent_message_chunk"
    /\ step.m.res = ""
    /\ step.ev = <<SessionEv("sessionUpdate", "agent_message_chunk", step.m.call)>>

\* C29: sendRequest called while the connection holds no subprocess
\* (before spawn or after disconnect) is rejected as not connected and
\* changes nothing: the next-id counter, the pending table, the timers,
\* the callers' outcomes and the written lines stay as they were.
C29_SendWithoutChildRejected ==
    [][step'.op = "sendRequest" /\ child = NoChild
       => /\ step'.thrown
          /\ UNCHANGED <<nextId, pending, timers, outcome, written, state, child>>]_vars

\* After a connection that issued requests was disconnected, a
\* sendRequest was rejected; the counter stands where the connection
\* left it and no request is pending.
C29_Witness ==
    /\ step.op = "sendRequest" /\ step.thrown
    /\ child = NoChild
    /\ Len(conn) > 0
    /\ nextId > 1
    /\ step.id = nextId
    /\ pending = <<>> /\ timers = <<>>

\* C31: once the state is "disconnected" it stays so until the next
\* connect: no other step - in particular the exit or error event of the
\* terminated subprocess - changes the state or emits a stateChange.
C31_DisconnectedUntilConnect ==
    [][state = "disconnected" /\ step'.op # "connect"
       => /\ state' = "disconnected"
          /\ \A k \in DOMAIN step'.ev : step'.ev[k].n # "stateChange"]_vars

\* The subprocess killed by disconnect() delivered its exit event: no
\* subprocess is attached and the state has become "closed".
C31_Witness ==
    /\ step.op = "exit"
    /\ child = NoChild
    /\ Len(conn) > 0
    /\ state = "closed"
    /\ step.ev = <<Ev("stateChange", "closed", 0), ExitEv("null", "SIGTERM")>>

\* C32: under automatic approval, once the approval event and the
\* elicitation request of a call id have both been handled, in either
\* order, the pending-approval table holds no entry for that call id.
C32_NoEntryAfterBothHandled ==
    \A c \in CallIds :
        (/\ autoApprove \/ yoloMode
         /\ ApprovalEventsOf(c) # <<>>
         /\ \E k \in DOMAIN LogOf(c) :
               LogOf(c)[k].kind = "elicitation" /\ ~LogOf(c)[k].thrown)
        => c \notin DOMAIN pendingAutoApprovals

\* The elicitation of call Y was approved on arrival and the event of Y
\* came after it: the entry the event stored is still in the table.
C32_Witness ==
    /\ autoApprove \/ yoloMode
    /\ [k \in 1..Len(LogOf("Y")) |-> LogOf("Y")[k].kind] = <<"elicitation", "event">>
    /\ ~LogOf("Y")[1].thrown
    /\ [k \in 1..Len(RepliesTo(8)) |-> RepliesTo(8)[k].val] = <<"approved">>
    /\ "Y" \in DOMAIN pendingAutoApprovals
    /\ step.op = "notification" /\ step.m.call = "Y"

\* C33: whenever the state is "closed", "error" or "disconnected" the
\* pending table is empty (a request issued after the process has gone is
\* rejected at once, not recorded).
C33_NoPendingWhenDown ==
    state \in {"closed", "error", "disconnected"} => pending = <<>>

\* After the process exited a request was accepted: it is recorded in the
\* pending table with its timer while the state is "closed".
C33_Witness ==
    /\ state = "closed"
    /\ child \notin alive /\ child # NoChild
    /\ step.op = "sendRequest" /\ ~step.thrown
    /\ step.id \in DOMAIN pending
    /\ step.id \in DOMAIN timers
    /\ outcome[step.id].k = "none"

\* C34: on a tool-dialect connection with autoApprove and yoloMode both
\* off, the pending-approval table stays empty, and a response is written
\* only by the host invoking the decision callback of a request surfaced
\* to it: the response carries that request's id and the decision the
\* host supplied.
C34_OnlyHostDecides ==
    [][(dialect = "mcp" /\ ~autoApprove /\ ~yoloMode)
       => /\ pendingAutoApprovals' = <<>>
          /\ \A k \in (DOMAIN written') \ (DOMAIN written) :
                written'[k].kind \in {"response", "error"}
                => /\ step'.op = "hostDecide"
                   /\ step'.id \in hostPending
                   /\ written'[k] = Out(child, "response", step'.id, "", step'.m.res)]_vars

\* The event of call X arrived, then its elicitation, which was surfaced
\* to the host; the host denied it and 'denied' is the one response.
C34_Witness ==
    /\ ~autoApprove /\ ~yoloMode
    /\ [k \in 1..Len(LogOf("X")) |-> LogOf("X")[k].kind] = <<"event", "elicitation">>
    /\ pendingAutoApprovals = <<>>
    /\ step.op = "hostDecide" /\ step.id = 7 /\ step.m.res = "denied"
    /\ [k \in 1..Len(RepliesTo(7)) |-> RepliesTo(7)[k].val] = <<"denied">>

\* The ids of the tools/list requests written so far.
ListRequests ==
    {written[k].id : k \in {j \in DOMAIN written :
                               written[j].kind = "request" /\ written[j].method = "tools/list"}}

\* C35: once every tools/list request issued so far has been answered
\* with a result and the continuations have run, the catalog is the one
\* carried by the response to the most recently issued tools/list
\* request, in whatever order the responses arrived.
C35_NewestCatalogWins ==
    (/\ ListRequests # {}
     /\ micro = <<>>
     /\ \A i \in ListRequests : outcome[i].k = "ok")
    => LET last == CHOOSE i \in ListRequests : \A j \in ListRequests : j <= i
       IN  tools = ToolsIn(outcome[last].v)

\* Two re-fetches were in flight; the newer was answered first and the
\* older response, arriving last, left its catalog in place.
C35_Witness ==
    /\ Cardinality(ListRequests) = 2
    /\ micro = <<>>
    /\ \A i \in ListRequests : outcome[i].k = "ok"
    /\ \E i, j \in ListRequests :
          /\ i < j
          /\ outcome[i].v # outcome[j].v
          /\ tools = ToolsIn(outcome[i].v)
    /\ step.op = "refetched"

\* C36: for each request id of the remote peer at most one response is
\* written per request received with that id, however often the host
\* invokes the decision callback of that request.
C36_OneResponsePerRemoteRequest ==
    \A i \in RemoteIds : Len(RepliesTo(i)) <= Len(ElicitationsOf("X", i))

\* The one elicitation request with id 7 was surfaced to the host, which
\* invoked its callback twice: two responses with id 7 were written.
C36_Witness ==
    /\ Len(ElicitationsOf("X", 7)) = 1
    /\ [k \in 1..Len(RepliesTo(7)) |-> RepliesTo(7)[k].val] = <<"approved", "denied">>
    /\ step.op = "hostDecide" /\ step.id = 7 /\ ~step.thrown

\* C37: after disconnect() stdout lines of the terminated subprocess are
\* not dispatched: no handler runs, no event is emitted, no
\* pending-approval entry is created and nothing is surfaced to the host.
C37_NoDispatchAfterDisconnect ==
    [][child = NoChild /\ step'.op \in DeliverOps
       => /\ step'.op = "dropped"
          /\ step'.ev = <<>>
          /\ pendingAutoApprovals' = pendingAutoApprovals
          /\ hostPending' = hostPending]_vars

\* Under automatic approval an approval event that arrived after
\* disconnect() was dispatched: codexEvent was emitted and an entry
\* stored in the pending-approval table.
C37_Witness ==
    /\ child = NoChild /\ state = "disconnected"
    /\ step.op = "notification" /\ step.m.method = "codex/event"
    /\ step.ev = <<Ev("codexEvent", "exec_approval_request", 0)>>
    /\ LogOf("X") = <<Logged(step.m, "notification", FALSE)>>
    /\ DOMAIN pendingAutoApprovals = {"X"}

\* C38: whenever no continuation of the client is waiting to run, the
\* recorded sessionId and active cli are both null or both come from the
\* connection the client holds; with no connection held both are null.
C38_SessionBelongsToHeldConnection ==
    client.cq = <<>>
    => /\ client.sessionId \in {NoConnection, client.acp}
       /\ client.activeCli \in {NoConnection, client.acp}

\* Two overlapping connect() calls each created a connection; the client
\* holds the second, which still runs, and records the session of the
\* first.
C38_Witness ==
    /\ client.cq = <<>>
    /\ client.acp = 2 /\ client.sessionId = 1 /\ client.activeCli = 1
    /\ client.conns[2].alive /\ ~client.conns[2].asked
    /\ step.op = "sessionSettled" /\ ~step.thrown

\* C39: disconnect() leaves no state of the old subprocess behind: after
\* it the partial-line buffer of stdout and the pending-approval table
\* are empty.
C39_DisconnectClearsTransientState ==
    [][step'.op = "disconnect"
       => /\ io'.stdoutBuffer = <<>>
          /\ pendingAutoApprovals' = <<>>]_vars

\* The connection was disconnected and connected again; the new
\* subprocess starts with a line fragment of the old one in the stdout
\* buffer and with the approval stored for the old one in the table.
C39_Witness ==
    /\ step.op = "connect"
    /\ Len(conn) = 2 /\ child = 2
    /\ io.stdoutBuffer # <<>>
    /\ DOMAIN pendingAutoApprovals = {"X"}

====
